---- MODULE Spec2Model ----
(***************************************************************************)
(* HamClock alert core: the rule evaluator (data/alerts.rs), the alert     *)
(* ledger (data/models.rs), the distribution router (phase9/mod.rs) and    *)
(* the sink tasks that drain the router's queues (phase9/*.rs, main.rs).   *)
(*                                                                         *)
(* Units.  Time is whole seconds (chrono timestamps).  Kp is kept in       *)
(* tenths (65 is Kp 6.5); the Kp inputs are multiples of 0.5, which f32    *)
(* represents and subtracts exactly.  Elevations are whole degrees,        *)
(* frequencies whole kHz (14074 is 14.074 MHz).  A String is a sequence    *)
(* of one-character strings, so that to_uppercase, contains and parse are  *)
(* computed and not assumed.  A message is the tuple of the arguments of   *)
(* its format! call.                                                       *)
(***************************************************************************)
EXTENDS Integers, Sequences, FiniteSets, TLC

VARIABLES
    config,       \* AlertConfig + Phase9Config, fixed at startup
    now,          \* Utc::now(), seconds
    alert_state,  \* AppData.alert_state (AlertState)
    queues,       \* the four mpsc channels of AlertChannels, by sink
    sink_pc,      \* position of each sink task: "spawned", "running", "exited"
    handled,      \* by sink, the alerts the sink task has taken and handled
    next_seq,     \* number of Alert::new calls so far (names each Alert value)
    cycles,       \* number of detection cycles run so far
    ticks,        \* number of clock advances so far
    hist,         \* observation log: one record per detection cycle
    store,        \* the alerts table of the History Store (a set of rows)
    cache,        \* ResponseCache: by data kind, None or a CacheEntry
    cache_ops,    \* cache operations in progress (entries built and not yet
                  \* stored, position of clear_all, position of each fetch)
    got,          \* observation log: the last cache read or fetch result
    fetches,      \* by data kind, number of upstream fetch attempts so far
    notified,     \* the notifications the Notification Sink asked the OS to show
    errors,       \* the error! lines of the sink tasks, in order
    broker,       \* MQTT: network, connection, eventloop task, request channel
    web,          \* Live Broadcaster: the broadcast channel and the viewers
    mutex         \* the Mutex<AppData> of main: holder and waiting tasks

cacheVars == <<cache, cache_ops, got, fetches>>

ioVars == <<notified, errors, broker, web, mutex>>

detectorVars == <<alert_state, queues, sink_pc, handled, next_seq, cycles, hist, store>>

vars == <<config, now, alert_state, queues, sink_pc, handled, next_seq, cycles, ticks, hist,
          store, cacheVars, ioVars>>

(***************************************************************************)
(* Bounds of the model.                                                    *)
(***************************************************************************)
MaxCycles == 3
MaxTicks == 3
MaxCyclesRule == 5
MaxCyclesSinks == 2
MaxCyclesSat == 6
MaxCyclesXray == 7
MaxPuts == 2
MaxClears == 1
MaxFetches == 2
HistoryCap == 2
MaxFlips == 1
MaxFaults == 3
MaxAttempts == 1
MaxLogged == 1
\* the capacity of the broadcast channel (100 in web_dashboard.rs)
BroadcastCap == 2
MaxCyclesBroker == 2
\* the capacity of the MQTT client's request channel (10 in mqtt.rs)
RequestCap == 1
NotificationCap == 1
MqttCap == 2
WebCap == 2

(***************************************************************************)
(* Program constants.                                                      *)
(***************************************************************************)
Info == 0
Notice == 1
Warning == 2
Critical == 3
Emergency == 4
DedupMinutes == 5
SecondsPerMinute == 60
DxHistoryLimit == 100
BackoffSeconds == 5
MqttPort == 1883
MqttsPort == 8883
MaxPort == 65535
DxHistoryDrain == 50

Sinks == {"history", "notification", "mqtt", "web"}
AlertTypes == {"DxSpot", "SatellitePass", "KpSpike", "XrayFlare", "Aurora", "Cme"}
\* Option: None is the empty set, Some(v) the set of v alone
None == {}

Some(v) == {v}

Unwrap(option) == CHOOSE v \in option : TRUE

(***************************************************************************)
(* Strings.                                                                *)
(***************************************************************************)
UpperChar(c) ==
    CASE c = "i" -> "I"
      [] c = "s" -> "S"
      [] c = "o" -> "O"
      [] c = "c" -> "C"
      [] c = "w" -> "W"
      [] c = "f" -> "F"
      [] c = "t" -> "T"
      [] c = "b" -> "B"
      [] OTHER -> c

to_uppercase(s) == [i \in 1..Len(s) |-> UpperChar(s[i])]

contains(haystack, needle) ==
    \E i \in 0..(Len(haystack) - Len(needle)) :
        SubSeq(haystack, i + 1, i + Len(needle)) = needle

Digits == <<"0", "1", "2", "3", "4", "5", "6", "7", "8", "9">>

IsDigit(c) == \E d \in 1..10 : Digits[d] = c

DigitValue(c) == (CHOOSE d \in 1..10 : Digits[d] = c) - 1

RECURSIVE DecimalValue(_)
DecimalValue(s) ==
    IF s = <<>> THEN 0
    ELSE 10 * DecimalValue(SubSeq(s, 1, Len(s) - 1)) + DigitValue(s[Len(s)])

\* str::parse::<i32>().unwrap_or(0): an optional sign and at least one digit,
\* anything else is an Err and gives the default
parse_i32_or_0(s) ==
    LET signed == s /= <<>> /\ s[1] \in {"+", "-"}
        body == IF signed THEN Tail(s) ELSE s
    IN  IF body /= <<>> /\ \A i \in 1..Len(body) : IsDigit(body[i])
        THEN IF signed /\ s[1] = "-" THEN 0 - DecimalValue(body) ELSE DecimalValue(body)
        ELSE 0

RECURSIVE DecimalDigits(_)
\* the decimal digits of a natural number
DecimalDigits(n) ==
    IF n < 10 THEN <<Digits[n + 1]>>
    ELSE DecimalDigits(n \div 10) \o <<Digits[(n % 10) + 1]>>

\* format!("{:.1}", x) of a value held in tenths
FormatTenths(x) ==
    LET a == IF x < 0 THEN 0 - x ELSE x
    IN  (IF x < 0 THEN <<"-">> ELSE <<>>)
            \o DecimalDigits(a \div 10) \o <<".">> \o DecimalDigits(a % 10)

Abs(x) == IF x < 0 THEN 0 - x ELSE x

Max2(a, b) == IF a >= b THEN a ELSE b

(***************************************************************************)
(* Alert (data/models.rs).                                                 *)
(***************************************************************************)
AlertNew(alert_type, severity, message, duration_seconds, t, seq) ==
    [ seq          |-> seq,
      id           |-> <<alert_type, t>>,
      alert_type   |-> alert_type,
      severity     |-> severity,
      message      |-> message,
      created_at   |-> t,
      expires_at   |-> t + duration_seconds,
      acknowledged |-> FALSE ]

is_expired(a, t) == t > a.expires_at

\* mutant: an acknowledged alert stays active until it expires
is_active_until_expiry(a, t) == ~is_expired(a, t)

is_active(a, t) == ~is_expired(a, t) /\ ~a.acknowledged

\* chrono::Duration::num_minutes: whole minutes, truncated toward zero
num_minutes(secs) ==
    IF secs >= 0 THEN secs \div SecondsPerMinute
    ELSE 0 - ((0 - secs) \div SecondsPerMinute)

SelectActive(alerts, t) == SelectSeq(alerts, LAMBDA a : is_active(a, t))

\* mutant: expired alerts are kept until they are acknowledged
cleanup_expired_keep_expired(alerts, t) ==
    SelectSeq(alerts, LAMBDA a : ~a.acknowledged)

\* mutant: acknowledged alerts are kept until they expire
cleanup_expired_keep_acknowledged(alerts, t) ==
    SelectSeq(alerts, LAMBDA a : ~is_expired(a, t))

cleanup_expired(alerts, t) == SelectActive(alerts, t)

is_duplicate(alerts, alert, t) ==
    \E i \in 1..Len(alerts) :
        /\ alerts[i].alert_type = alert.alert_type
        /\ is_active(alerts[i], t)
        /\ num_minutes(alert.created_at - alerts[i].created_at) < DedupMinutes

\* mutant: a duplicate takes the place of the alert it duplicates
add_alert_replacing(alerts, alert, t) ==
    IF ~is_duplicate(alerts, alert, t) THEN Append(alerts, alert)
    ELSE [i \in 1..Len(alerts) |->
             IF alerts[i].alert_type = alert.alert_type /\ is_active(alerts[i], t)
             THEN alert ELSE alerts[i]]

\* mutant: the dedup check is left out
add_alert_unfiltered(alerts, alert, t) == Append(alerts, alert)

add_alert(alerts, alert, t) ==
    IF ~is_duplicate(alerts, alert, t) THEN Append(alerts, alert) ELSE alerts

AlertStateNew ==
    [ active_alerts             |-> <<>>,
      last_kp                   |-> 0,
      last_dx_spots             |-> <<>>,
      last_satellite_elevations |-> {},
      last_xray_class           |-> <<>>,
      last_flux                 |-> 0,
      last_ap                   |-> 0 ]

(***************************************************************************)
(* AlertChannels (phase9/mod.rs, main.rs).                                 *)
(***************************************************************************)
Capacity(s) ==
    CASE s = "history" -> HistoryCap
      [] s = "notification" -> NotificationCap
      [] s = "mqtt" -> MqttCap
      [] s = "web" -> WebCap

\* mpsc::Sender::try_send: Err(Closed) once the receiver is dropped, Err(Full)
\* at capacity, else the value is queued; the caller discards the Result
try_send(q, closed, cap, alert) ==
    IF closed THEN q
    ELSE IF Len(q) >= cap THEN q
    ELSE Append(q, alert)

SinkOrder == <<"history", "notification", "mqtt", "web">>

\* mutant: the four sends chained so that the first failed send ends the call
distribute_until_failure(qs, pcs, alert) ==
    LET accepts(s) == pcs[s] /= "exited" /\ Len(qs[s]) < Capacity(s)
        reached(s) == \A i \in 1..4 :
                          (\E j \in (i + 1)..4 : SinkOrder[j] = s) => accepts(SinkOrder[i])
    IN  [s \in Sinks |->
            IF reached(s) THEN try_send(qs[s], pcs[s] = "exited", Capacity(s), alert)
            ELSE qs[s]]

distribute(qs, pcs, alert) ==
    [s \in Sinks |-> try_send(qs[s], pcs[s] = "exited", Capacity(s), alert)]

(***************************************************************************)
(* Rule evaluator (data/alerts.rs).  A detection cycle threads a context   *)
(* through the rules: st.as is the AlertState, st.qs the queues, and       *)
(* st.produced / st.distributed / st.accepted list, in order, the alerts   *)
(* of this cycle that a rule created, that were passed to distribute, and  *)
(* that add_alert appended to the ledger.                                  *)
(***************************************************************************)
Begin(as, qs, seq) ==
    [ as |-> as, qs |-> qs, seq |-> seq,
      produced |-> <<>>, distributed |-> <<>>, accepted |-> <<>> ]

\* AlertDetector::distribute_alert; main.rs attaches the channels at startup
distribute_alert(st, pcs, alert) ==
    [st EXCEPT !.qs = distribute(@, pcs, alert),
               !.distributed = Append(@, alert)]

\* Alert::new as the rules call it: the Alert value is named by st.seq
Create(st, alert) ==
    [st EXCEPT !.seq = @ + 1, !.produced = Append(@, alert)]

\* app_data.alert_state.add_alert(alert)
Ledger(st, alert, t) ==
    LET after == add_alert(st.as.active_alerts, alert, t)
    IN  [st EXCEPT !.as.active_alerts = after,
                   !.accepted = IF after /= st.as.active_alerts
                                THEN Append(@, alert) ELSE @]

\* the tail of the DX, satellite, Kp, X-ray and aurora branches:
\* distribute_alert(alert.clone()); add_alert(alert)
DistributeThenAdd(st, pcs, alert, t) ==
    Ledger(distribute_alert(Create(st, alert), pcs, alert), alert, t)

\* the tail of the CME branch: add_alert(alert) alone
AddOnly(st, alert, t) ==
    Ledger(Create(st, alert), alert, t)

(* ---- DX spots ---- *)
is_watched_band(cfg, spot) ==
    \E freq \in cfg.watched_bands : Abs(spot.frequency - freq) < 10

is_watched_mode(cfg, spot) ==
    \E mode \in cfg.watched_modes :
        contains(to_uppercase(spot.mode), to_uppercase(mode))

\* mutant: with both ends set, only the lower end is checked
in_range_lower_only(cfg, spot) ==
    IF cfg.dx_min_frequency /= None THEN spot.frequency >= Unwrap(cfg.dx_min_frequency)
    ELSE IF cfg.dx_max_frequency /= None THEN spot.frequency <= Unwrap(cfg.dx_max_frequency)
    ELSE TRUE

in_range(cfg, spot) ==
    CASE cfg.dx_min_frequency /= None /\ cfg.dx_max_frequency /= None ->
            /\ spot.frequency >= Unwrap(cfg.dx_min_frequency)
            /\ spot.frequency <= Unwrap(cfg.dx_max_frequency)
      [] cfg.dx_min_frequency /= None /\ cfg.dx_max_frequency = None ->
            spot.frequency >= Unwrap(cfg.dx_min_frequency)
      [] cfg.dx_min_frequency = None /\ cfg.dx_max_frequency /= None ->
            spot.frequency <= Unwrap(cfg.dx_max_frequency)
      [] OTHER -> TRUE

SeqContains(seq, x) == \E i \in 1..Len(seq) : seq[i] = x

DxSpotStep(cfg, st, pcs, spot, t) ==
    IF SeqContains(st.as.last_dx_spots, spot.callsign) THEN st
    ELSE IF (is_watched_band(cfg, spot) \/ is_watched_mode(cfg, spot)) /\ in_range(cfg, spot)
    THEN LET alert == AlertNew("DxSpot", Notice,
                               <<"NEW DX", spot.frequency, spot.mode, spot.callsign, spot.spotter>>,
                               cfg.alert_duration_seconds, t, st.seq)
             st1 == DistributeThenAdd(st, pcs, alert, t)
         IN  [st1 EXCEPT !.as.last_dx_spots = Append(@, spot.callsign)]
    ELSE st

\* mutant: the history is trimmed after every spot
RECURSIVE DxSpotLoop_trim_each(_, _, _, _, _, _)
DxSpotLoop_trim_each(cfg, st, pcs, spots, i, t) ==
    IF i > Len(spots) THEN st
    ELSE LET st1 == DxSpotStep(cfg, st, pcs, spots[i], t)
             st2 == [st1 EXCEPT !.as.last_dx_spots =
                        IF Len(@) > DxHistoryLimit THEN SubSeq(@, DxHistoryDrain + 1, Len(@)) ELSE @]
         IN  CASE st2.seq >= st.seq -> DxSpotLoop_trim_each(cfg, st2, pcs, spots, i + 1, t)

RECURSIVE DxSpotLoop(_, _, _, _, _, _)
DxSpotLoop(cfg, st, pcs, spots, i, t) ==
    IF i > Len(spots) THEN st
    ELSE LET st1 == DxSpotStep(cfg, st, pcs, spots[i], t)
         IN  \* the state after the spot is computed before the loop goes on (the
             \* alert counter never decreases)
             CASE st1.seq >= st.seq -> DxSpotLoop(cfg, st1, pcs, spots, i + 1, t)

\* mutant: the history is trimmed as soon as it reaches the limit
TrimDxHistory_at_limit(h) ==
    IF Len(h) >= DxHistoryLimit THEN SubSeq(h, DxHistoryDrain + 1, Len(h)) ELSE h

TrimDxHistory(h) ==
    IF Len(h) > DxHistoryLimit THEN SubSeq(h, DxHistoryDrain + 1, Len(h)) ELSE h

check_dx_alerts(cfg, st, pcs, spots, t) ==
    LET st1 == DxSpotLoop(cfg, st, pcs, spots, 1, t)
    IN  [st1 EXCEPT !.as.last_dx_spots = TrimDxHistory(@)]

(* ---- satellites ---- *)
is_watched_satellite(cfg, sat) ==
    \/ cfg.watched_satellites = {}
    \/ \E name \in cfg.watched_satellites :
           contains(to_uppercase(sat.name), to_uppercase(name))

\* HashMap<String, f32> as a set of <<key, value>> pairs, one per key
MapHas(m, k) == \E p \in m : p[1] = k

MapGetOr(m, k, default) ==
    IF MapHas(m, k) THEN (CHOOSE p \in m : p[1] = k)[2] ELSE default

\* mutant: the map holds the satellite inserted last only
MapInsert_only(m, k, v) == {<<k, v>>}

MapInsert(m, k, v) == {p \in m : p[1] /= k} \cup {<<k, v>>}

\* mutant: level-triggered, the previous elevation is not looked at
PassFires_level(cfg, elevation, prev_elevation) ==
    elevation >= cfg.satellite_elevation_threshold

PassFires(cfg, elevation, prev_elevation) ==
    /\ elevation >= cfg.satellite_elevation_threshold
    /\ prev_elevation < cfg.satellite_elevation_threshold

\* the arguments of the pass message: minutes to peak in tenths of a minute
\* ((90 - el) / 10 minutes, at least 1.0), or the range in whole km
PassMessage(cfg, sat) ==
    IF cfg.satellite_countdown_enabled
    THEN <<"PASS", sat.name, sat.elevation, sat.azimuth, "min to peak", Max2(90 - sat.elevation, 10)>>
    ELSE <<"PASS", sat.name, sat.elevation, sat.azimuth, "km", sat.range>>

SatelliteStep(cfg, st, pcs, sat, t) ==
    IF ~is_watched_satellite(cfg, sat) THEN st
    ELSE LET prev_elevation == MapGetOr(st.as.last_satellite_elevations, sat.name, 0)
             st1 == [st EXCEPT !.as.last_satellite_elevations =
                                    MapInsert(@, sat.name, sat.elevation)]
         IN  IF PassFires(cfg, sat.elevation, prev_elevation)
             THEN DistributeThenAdd(st1, pcs,
                      AlertNew("SatellitePass", Notice, PassMessage(cfg, sat),
                               cfg.alert_duration_seconds * 2, t, st1.seq), t)
             ELSE st1

RECURSIVE SatelliteLoop(_, _, _, _, _, _)
SatelliteLoop(cfg, st, pcs, sats, i, t) ==
    IF i > Len(sats) THEN st
    ELSE SatelliteLoop(cfg, SatelliteStep(cfg, st, pcs, sats[i], t), pcs, sats, i + 1, t)

check_satellite_alerts(cfg, st, pcs, sats, t) ==
    SatelliteLoop(cfg, st, pcs, sats, 1, t)

(* ---- space weather ---- *)
KpSpikeFires(cfg, kp, last_kp) == kp - last_kp >= cfg.kp_spike_threshold

\* mutant: the band limits taken as exclusive
KpSpikeSeverity_exclusive(kp) ==
    IF kp > 80 THEN Emergency
    ELSE IF kp > 60 THEN Critical
    ELSE IF kp > 50 THEN Warning
    ELSE Notice

KpSpikeSeverity(kp) ==
    IF kp >= 80 THEN Emergency
    ELSE IF kp >= 60 THEN Critical
    ELSE IF kp >= 50 THEN Warning
    ELSE Notice

KpStatus(kp) ==
    IF kp >= 80 THEN "STORM"
    ELSE IF kp >= 60 THEN "ACTIVE"
    ELSE IF kp >= 50 THEN "UNSETTLED"
    ELSE "QUIET"

\* the text of a Kp-spike message: the literal pieces of the format string
\* whole, the two {:.1} numbers character by character
KpSpikeText(message) ==
    <<message[1], ": ">> \o FormatTenths(message[2]) \o <<" (+">>
        \o FormatTenths(message[3]) \o <<") - ", message[4]>>

\* mutant: last_kp is stored inside the spike branch, so only when it fires
KpSpikeBranch_update_on_fire(cfg, st, pcs, sw, t) ==
    LET kp_change == sw.kp - st.as.last_kp
    IN  IF KpSpikeFires(cfg, sw.kp, st.as.last_kp)
        THEN [DistributeThenAdd(st, pcs,
                  AlertNew("KpSpike", KpSpikeSeverity(sw.kp),
                           <<"Kp SPIKE", sw.kp, kp_change, KpStatus(sw.kp)>>,
                           cfg.alert_duration_seconds, t, st.seq), t)
              EXCEPT !.as.last_kp = sw.kp]
        ELSE st

KpSpikeBranch(cfg, st, pcs, sw, t) ==
    LET kp_change == sw.kp - st.as.last_kp
        st1 == IF KpSpikeFires(cfg, sw.kp, st.as.last_kp)
               THEN DistributeThenAdd(st, pcs,
                        AlertNew("KpSpike", KpSpikeSeverity(sw.kp),
                                 <<"Kp SPIKE", sw.kp, kp_change, KpStatus(sw.kp)>>,
                                 cfg.alert_duration_seconds, t, st.seq), t)
               ELSE st
    IN  [st1 EXCEPT !.as.last_kp = sw.kp]

XrayClassified(flux) == flux /= 0 /\ flux > 50

XrayClass(flux) ==
    IF flux > 1000 THEN <<"X">>
    ELSE IF flux > 100 THEN <<"M">>
    ELSE IF flux > 10 THEN <<"C">>
    ELSE <<"B">>

\* sw.flux as i32 != last_xray_class.parse::<i32>().unwrap_or(0)
XrayChanged(flux, last_xray_class) == flux /= parse_i32_or_0(last_xray_class)

XraySeverity(class) ==
    IF class = <<"X">> THEN Critical
    ELSE IF class = <<"M">> THEN Warning
    ELSE Notice

XrayFires(cfg, flux, last_xray_class) ==
    /\ XrayClassified(flux)
    /\ XrayChanged(flux, last_xray_class)
    /\ XrayClass(flux) \in cfg.xray_alert_classes

XrayBranch(cfg, st, pcs, sw, t) ==
    IF XrayClassified(sw.flux)
    THEN LET xray_class == XrayClass(sw.flux)
             st1 == IF XrayFires(cfg, sw.flux, st.as.last_xray_class)
                    THEN DistributeThenAdd(st, pcs,
                             AlertNew("XrayFlare", XraySeverity(xray_class),
                                      <<"SOLAR FLARE", xray_class>>,
                                      cfg.alert_duration_seconds, t, st.seq), t)
                    ELSE st
         IN  [st1 EXCEPT !.as.last_xray_class = xray_class]
    ELSE st

AuroraFires(cfg, kp) == kp >= cfg.kp_alert_threshold

AuroraSeverity(kp) ==
    IF kp >= 80 THEN Critical
    ELSE IF kp >= 60 THEN Warning
    ELSE IF kp >= 50 THEN Notice
    ELSE Info

\* mutant: edge-triggered, no new aurora alert while one is still active
AuroraBranch_once(cfg, st, pcs, sw, t) ==
    IF /\ AuroraFires(cfg, sw.kp)
       /\ ~\E i \in 1..Len(st.as.active_alerts) :
              /\ st.as.active_alerts[i].alert_type = "Aurora"
              /\ is_active(st.as.active_alerts[i], t)
    THEN DistributeThenAdd(st, pcs,
             AlertNew("Aurora", AuroraSeverity(sw.kp), <<"AURORA LIKELY", sw.kp>>,
                      cfg.alert_duration_seconds, t, st.seq), t)
    ELSE st

AuroraBranch(cfg, st, pcs, sw, t) ==
    IF AuroraFires(cfg, sw.kp)
    THEN DistributeThenAdd(st, pcs,
             AlertNew("Aurora", AuroraSeverity(sw.kp), <<"AURORA LIKELY", sw.kp>>,
                      cfg.alert_duration_seconds, t, st.seq), t)
    ELSE st

\* mutant: the thresholds are inclusive
CmeFires_inclusive(flux_change, ap_change) == flux_change >= 200 \/ ap_change >= 100

CmeFires(flux_change, ap_change) == flux_change > 200 \/ ap_change > 100

CmeSeverity(flux_change, ap_change) ==
    IF flux_change > 500 \/ ap_change > 200 THEN Critical
    ELSE IF flux_change > 350 \/ ap_change > 150 THEN Warning
    ELSE Notice

CmeBranch(cfg, st, sw, t) ==
    IF cfg.cme_alerts_enabled
    THEN LET flux_change == Abs(sw.flux - st.as.last_flux)
             ap_change == Abs(sw.ap - st.as.last_ap)
             st1 == IF CmeFires(flux_change, ap_change)
                    THEN AddOnly(st,
                             AlertNew("Cme", CmeSeverity(flux_change, ap_change),
                                      <<"CME ALERT", flux_change, ap_change>>,
                                      cfg.alert_duration_seconds * 2, t, st.seq), t)
                    ELSE st
         IN  [st1 EXCEPT !.as.last_flux = sw.flux, !.as.last_ap = sw.ap]
    ELSE st

check_space_weather_alerts(cfg, st, pcs, sw, t) ==
    CmeBranch(cfg,
        AuroraBranch(cfg,
            XrayBranch(cfg,
                KpSpikeBranch(cfg, st, pcs, sw, t),
                pcs, sw, t),
            pcs, sw, t),
        sw, t)

(* ---- the cycle ---- *)
\* what detect_alerts does after its cleanup: the three rule families, each
\* adding to the ledger and distributing as it goes
detect_rules(cfg, as, qs, pcs, seq, snap, t) ==
    LET st0 == Begin(as, qs, seq)
        st1 == IF cfg.dx_alerts_enabled
               THEN check_dx_alerts(cfg, st0, pcs, snap.dx_spots, t) ELSE st0
        st2 == IF cfg.satellite_alerts_enabled
               THEN check_satellite_alerts(cfg, st1, pcs, snap.satellites, t) ELSE st1
        st3 == IF cfg.space_weather_alerts_enabled
               THEN check_space_weather_alerts(cfg, st2, pcs, snap.space_weather, t) ELSE st2
    IN  st3

detect_alerts(cfg, as, qs, pcs, seq, snap, t) ==
    detect_rules(cfg, [as EXCEPT !.active_alerts = cleanup_expired(@, t)], qs, pcs, seq, snap, t)

(***************************************************************************)
(* Ledger operations of the UI (main.rs, keyboard handler).                *)
(***************************************************************************)
LastActiveIndex(alerts, t) ==
    IF \E i \in 1..Len(alerts) : is_active(alerts[i], t)
    THEN CHOOSE i \in 1..Len(alerts) :
             /\ is_active(alerts[i], t)
             /\ \A j \in (i + 1)..Len(alerts) : ~is_active(alerts[j], t)
    ELSE 0

\* mutant: the oldest active alert is the one marked
acknowledge_latest_oldest(alerts, t) ==
    IF \E i \in 1..Len(alerts) : is_active(alerts[i], t)
    THEN LET i == CHOOSE k \in 1..Len(alerts) :
                      /\ is_active(alerts[k], t)
                      /\ \A j \in 1..(k - 1) : ~is_active(alerts[j], t)
         IN  [alerts EXCEPT ![i].acknowledged = TRUE]
    ELSE alerts

acknowledge_latest(alerts, t) ==
    LET i == LastActiveIndex(alerts, t)
    IN  IF i = 0 THEN alerts ELSE [alerts EXCEPT ![i].acknowledged = TRUE]

acknowledge_all(alerts, t) ==
    [i \in 1..Len(alerts) |->
        IF is_active(alerts[i], t) THEN [alerts[i] EXCEPT !.acknowledged = TRUE]
        ELSE alerts[i]]

(***************************************************************************)
(* Sink tasks (phase9/history.rs, notifications.rs, mqtt.rs,               *)
(* web_dashboard.rs): each returns at once when its feature is disabled,   *)
(* which drops its Receiver, and otherwise loops on rx.recv().             *)
(***************************************************************************)
SinkEnabled(cfg, s) ==
    CASE s = "history" -> cfg.history_enabled
      [] s = "notification" -> cfg.desktop_notifications_enabled
      [] s = "mqtt" -> cfg.mqtt_enabled
      [] s = "web" -> cfg.web_dashboard_enabled

\* mutant: the value is returned and stays at the head of the queue
recv_keep(q) == [value |-> Head(q), rest |-> q]

\* mutant: the newest queued value is taken first
recv_newest(q) == [value |-> q[Len(q)], rest |-> SubSeq(q, 1, Len(q) - 1)]

\* mpsc::Receiver::recv on a non-empty channel: the oldest queued value
recv(q) == [value |-> Head(q), rest |-> Tail(q)]

(***************************************************************************)
(* History Store (phase9/history.rs).  The alerts table is a set of rows   *)
(* and id is its PRIMARY KEY.  Statements that SQLite fails for reasons    *)
(* outside the program (disk, locking) are not modelled; a statement that  *)
(* the table's own constraint rejects is.                                  *)
(***************************************************************************)
SecondsPerDay == 86400

\* the params! of insert_alert
RowOf(alert) ==
    [ id           |-> alert.id,
      alert_type   |-> alert.alert_type,
      severity     |-> alert.severity,
      message      |-> alert.message,
      created_at   |-> alert.created_at,
      expires_at   |-> alert.expires_at,
      acknowledged |-> IF alert.acknowledged THEN 1 ELSE 0 ]

\* mutant: the statement fails and the error is only logged
insert_alert_failing(rows, alert) == [ok |-> FALSE, rows |-> rows]

\* INSERT INTO alerts: Err and no row when a row with the id exists
insert_alert(rows, alert) ==
    IF \E r \in rows : r.id = alert.id
    THEN [ok |-> FALSE, rows |-> rows]
    ELSE [ok |-> TRUE, rows |-> rows \cup {RowOf(alert)}]

\* DELETE FROM alerts WHERE created_at < cutoff
cleanup_old_entries(cfg, rows, t) ==
    LET cutoff == t - cfg.history_retention_days * SecondsPerDay
    IN  {r \in rows : ~(r.created_at < cutoff)}

\* mutant: the surplus is taken from the newest rows (ORDER BY ... DESC)
NewestRows(rows, n) ==
    {D \in SUBSET rows :
        /\ Cardinality(D) = n
        /\ \A d \in D : \A r \in rows \ D : d.created_at >= r.created_at}

\* the sets of n rows that SELECT id ... ORDER BY created_at ASC LIMIT n can
\* return: rows of equal created_at come in an order SQL leaves open
OldestRows(rows, n) ==
    {D \in SUBSET rows :
        /\ Cardinality(D) = n
        /\ \A d \in D : \A r \in rows \ D : d.created_at <= r.created_at}

\* enforce_max_entries, for one choice D of the surplus rows
enforce_max_entries(cfg, rows, D) ==
    LET count == Cardinality(rows)
    IN  IF count > cfg.history_max_entries THEN rows \ D ELSE rows

SurplusChoices(cfg, rows) ==
    IF Cardinality(rows) > cfg.history_max_entries
    THEN OldestRows(rows, Cardinality(rows) - cfg.history_max_entries)
    ELSE {{}}

\* the stores one maintenance pass can leave: cleanup_old_entries, then
\* enforce_max_entries
MaintenancePass(cfg, rows, t) ==
    LET recent == cleanup_old_entries(cfg, rows, t)
    IN  {enforce_max_entries(cfg, recent, D) : D \in SurplusChoices(cfg, recent)}

(***************************************************************************)
(* Freshness cache (data/cache.rs).  Each data kind has its own            *)
(* Mutex<Option<CacheEntry>>: an Option is the empty set or a singleton.   *)
(***************************************************************************)
SecondsPerHour == 3600

CacheKinds == {"space_weather", "forecast", "dx_spots", "satellites"}

\* the ttl each cache_* function passes to CacheEntry::new
Ttl(kind) ==
    CASE kind = "space_weather" -> 30 * SecondsPerMinute
      [] kind = "forecast" -> 2 * SecondsPerHour
      [] kind = "dx_spots" -> 10 * SecondsPerMinute
      [] kind = "satellites" -> 15 * SecondsPerMinute

CacheEntryNew(data, ttl, t) == [data |-> data, created_at |-> t, ttl |-> ttl]

\* mutant: an entry is still valid at the instant its age reaches the TTL
is_valid_inclusive(entry, t) == t - entry.created_at <= entry.ttl

is_valid(entry, t) == t - entry.created_at < entry.ttl

\* CacheEntry::get
entry_get(entry, t) == IF is_valid(entry, t) THEN Some(entry.data) ELSE {}

\* get_space_weather, get_forecast, get_dx_spots, get_satellites: the slot is
\* read under its lock
cache_get(slot, t) ==
    IF slot /= {} THEN entry_get(CHOOSE e \in slot : TRUE, t) ELSE {}

\* mutant: the stored entry is updated in place, its data first
store_entry_in_place(slot, entry) ==
    IF slot = {} THEN Some(entry)
    ELSE Some([(CHOOSE e \in slot : TRUE) EXCEPT !.data = entry.data])

\* *self.<kind>.lock().unwrap() = Some(entry)
store_entry(slot, entry) == Some(entry)

\* mutant: the last slot is left out
ClearOrder_but_last == <<"space_weather", "forecast", "dx_spots">>

\* the order in which clear_all empties the slots, one lock at a time
ClearOrder == <<"space_weather", "forecast", "dx_spots", "satellites">>

CacheOpsNew ==
    [ puts     |-> [k \in CacheKinds |-> {}],
      made     |-> [k \in CacheKinds |-> {}],
      clear_pc |-> 0,
      during   |-> {},
      fetch_pc |-> [k \in CacheKinds |-> "idle"],
      nputs    |-> 0,
      nclears  |-> 0 ]

GotNothing == [op |-> "none"]

(***************************************************************************)
(* Configurations and inputs.                                              *)
(***************************************************************************)
S_ISS == <<"I", "S", "S">>
S_SO50 == <<"S", "O", "-", "5", "0">>
S_iss_zarya == <<"i", "s", "s", " ", "z">>
S_NOAA == <<"N", "O", "A", "A">>
S_FT8 == <<"F", "T", "8">>
S_CW == <<"C", "W">>
S_ft8 == <<"f", "t", "8">>
S_SSB == <<"S", "S", "B">>

\* broker URLs: the default of Phase9Config, and malformed ones
S_default_url == <<"m", "q", "t", "t", ":", "/", "/", "l", "o", "c", "a", "l", "h", "o", "s", "t", ":", "1", "8", "8", "3">>
S_no_port_url == <<"m", "q", "t", "t", ":", "/", "/", "b", "r", "o", "k", "e", "r">>
S_tls_url == <<"m", "q", "t", "t", "s", ":", "/", "/", "b", "r", "o", "k", "e", "r", ":", "+", "8", "8", "8", "3">>
S_http_url == <<"h", "t", "t", "p", ":", "/", "/", "b", "r", "o", "k", "e", "r", ":", "1", "8", "8", "3">>
S_big_port_url == <<"m", "q", "t", "t", ":", "/", "/", "b", "r", "o", "k", "e", "r", ":", "6", "5", "5", "3", "6">>
S_word_port_url == <<"m", "q", "t", "t", ":", "/", "/", "b", "r", "o", "k", "e", "r", ":", "m", "q", "t", "t">>

\* AlertConfig::default() and Phase9Config::default()
DefaultConfig ==
    [ dx_alerts_enabled             |-> TRUE,
      watched_bands                 |-> {14074, 7074, 3573},
      watched_modes                 |-> {S_FT8, S_CW},
      dx_min_frequency              |-> None,
      dx_max_frequency              |-> None,
      satellite_alerts_enabled      |-> TRUE,
      satellite_elevation_threshold |-> 30,
      watched_satellites            |-> {S_ISS, S_SO50},
      satellite_countdown_enabled   |-> TRUE,
      space_weather_alerts_enabled  |-> TRUE,
      kp_alert_threshold            |-> 50,
      kp_spike_threshold            |-> 20,
      xray_alert_classes            |-> {<<"M">>, <<"X">>},
      cme_alerts_enabled            |-> TRUE,
      alert_duration_seconds        |-> 30,
      history_enabled               |-> TRUE,
      history_retention_days        |-> 30,
      history_max_entries           |-> 10000,
      desktop_notifications_enabled |-> FALSE,
      notification_min_severity     |-> Warning,
      mqtt_enabled                  |-> FALSE,
      mqtt_broker_url               |-> S_default_url,
      web_dashboard_enabled         |-> FALSE ]

QuietWeather == [kp |-> 0, flux |-> 0, ap |-> 0]

Snapshot(sw, spots, sats) ==
    [space_weather |-> sw, dx_spots |-> spots, satellites |-> sats]

Spot(freq, call, mode) ==
    [frequency |-> freq, callsign |-> call, spotter |-> <<"W", "1">>, mode |-> mode]

Sat(name, el) == [name |-> name, elevation |-> el, azimuth |-> 180, range |-> 900]

(***************************************************************************)
(* Actions.                                                                *)
(***************************************************************************)
\* the detector baselines of an AlertState (everything but the ledger)
Baselines(as) ==
    [ last_kp                   |-> as.last_kp,
      last_dx_spots             |-> as.last_dx_spots,
      last_satellite_elevations |-> as.last_satellite_elevations,
      last_xray_class           |-> as.last_xray_class,
      last_flux                 |-> as.last_flux,
      last_ap                   |-> as.last_ap ]

\* one tick of the background task of main.rs: the mutex is held from the
\* lock to the end of detect_alerts
DetectCycle(snap, keep, max) ==
    /\ cycles < max
    /\ LET st == detect_alerts(config, alert_state, queues, sink_pc, next_seq, snap, now)
           entry == [ snap        |-> snap,
                      pre         |-> Baselines(alert_state),
                      at          |-> now,
                      produced    |-> st.produced,
                      distributed |-> st.distributed,
                      accepted    |-> st.accepted ]
       IN  /\ alert_state' = st.as
           /\ queues' = st.qs
           /\ next_seq' = st.seq
           /\ hist' = IF keep THEN Append(hist, entry) ELSE <<entry>>
    /\ cycles' = cycles + 1
    /\ UNCHANGED <<config, now, sink_pc, handled, ticks, store, cacheVars, ioVars>>

Tick(d) ==
    /\ ticks < MaxTicks
    /\ now' = now + d
    /\ ticks' = ticks + 1
    /\ UNCHANGED <<config, alert_state, queues, sink_pc, handled, next_seq, cycles, hist, store, cacheVars, ioVars>>

AcknowledgeLatest ==
    /\ alert_state' = [alert_state EXCEPT !.active_alerts = acknowledge_latest(@, now)]
    /\ alert_state' /= alert_state
    /\ UNCHANGED <<config, now, queues, sink_pc, handled, next_seq, cycles, ticks, hist, store, cacheVars, ioVars>>

AcknowledgeAll ==
    /\ alert_state' = [alert_state EXCEPT !.active_alerts = acknowledge_all(@, now)]
    /\ alert_state' /= alert_state
    /\ UNCHANGED <<config, now, queues, sink_pc, handled, next_seq, cycles, ticks, hist, store, cacheVars, ioVars>>

(***************************************************************************)
(* Sink-side state at startup.                                             *)
(***************************************************************************)
\* mqtt::run before MqttPublisher::new: no connection, an empty request
\* channel, the eventloop task about to poll
BrokerNew ==
    [ net       |-> TRUE,
      link      |-> "none",
      loop_pc   |-> "poll",
      wake_at   |-> 0,
      attempts  |-> 0,
      flips     |-> 0,
      requests  |-> <<>>,
      pending   |-> {},
      published |-> <<>> ]

Viewers == {"v1", "v2"}

\* a viewer that has not opened its WebSocket yet; later: joined, the number
\* of alerts broadcast before it subscribed; pos, the number of alerts the
\* channel has had when its receiver last returned one; pushed, the alerts
\* sent to its socket; why, what ended handle_socket
ViewerNew == [st |-> "absent", joined |-> 0, pos |-> 0, pushed |-> <<>>, why |-> "none"]

\* web_dashboard::run: broadcast::channel(100) with no subscriber
WebNew ==
    [ sent    |-> <<>>,
      viewers |-> [v \in Viewers |-> ViewerNew] ]

\* Arc::new(Mutex::new(AppData::new()))
\* the tasks that hold the lock, the position of the data task inside its
\* block, the ledger it found when it took the lock, and the acknowledge tasks
\* spawned by key presses that have not taken the lock yet
MutexNew == [holders |-> {}, pc |-> "idle", seen |-> AlertStateNew, waiting |-> {}]

(* ---- what each sink does with one alert ---- *)
\* the error! line of a sink's loop
LogLine(s, alert) == [sink |-> s, alert |-> alert.seq]

\* history.insert_alert(&alert) with the statement itself able to fail
history_insert(rows, alert, io_ok) ==
    IF io_ok THEN insert_alert(rows, alert) ELSE [ok |-> FALSE, rows |-> rows]

Urgency(severity) ==
    CASE severity \in {Emergency, Critical} -> "Critical"
      [] severity = Warning -> "Normal"
      [] OTHER -> "Low"

Summary(alert_type) ==
    CASE alert_type = "DxSpot" -> "DX Spot"
      [] alert_type = "SatellitePass" -> "Satellite Pass"
      [] alert_type = "KpSpike" -> "Geomagnetic Storm"
      [] alert_type = "XrayFlare" -> "Solar Flare"
      [] alert_type = "Aurora" -> "Aurora Alert"
      [] alert_type = "Cme" -> "CME Detected"

\* mutant: an alert at the minimum severity is filtered out as well
send_alert_above_minimum(cfg, alert, shown) ==
    IF alert.severity <= cfg.notification_min_severity
    THEN [ok |-> TRUE, shows |-> <<>>]
    ELSE [ok |-> shown,
          shows |-> <<[alert |-> alert.seq, summary |-> Summary(alert.alert_type),
                       body |-> alert.message, urgency |-> Urgency(alert.severity),
                       shown |-> shown]>>]

\* NotificationSender::send_alert: the Result, and the notifications whose
\* show() was called (shown: whether the OS accepted it)
send_alert(cfg, alert, shown) ==
    IF alert.severity < cfg.notification_min_severity
    THEN [ok |-> TRUE, shows |-> <<>>]
    ELSE [ok |-> shown,
          shows |-> <<[alert |-> alert.seq, summary |-> Summary(alert.alert_type),
                       body |-> alert.message, urgency |-> Urgency(alert.severity),
                       shown |-> shown]>>]

\* the request AsyncClient::publish hands to the eventloop
PublishRequest(alert) ==
    [ topic      |-> alert.alert_type,
      id         |-> alert.id,
      severity   |-> alert.severity,
      message    |-> alert.message,
      created_at |-> alert.created_at,
      expires_at |-> alert.expires_at,
      alert      |-> alert.seq ]

\* MqttPublisher::publish_alert: the request enters the client's channel of
\* RequestCap requests, or the call waits for room in it
publish_alert(b, alert) ==
    IF Len(b.requests) < RequestCap
    THEN [b EXCEPT !.requests = Append(@, PublishRequest(alert))]
    ELSE [b EXCEPT !.pending = {PublishRequest(alert)}]

\* broadcast_tx.send(alert): the value is there for the receivers subscribed
\* at that moment; the Result is discarded
broadcast_send(w, alert) == [w EXCEPT !.sent = Append(@, alert)]

\* str::strip_prefix
strip_prefix(s, prefix) ==
    IF Len(s) >= Len(prefix) /\ SubSeq(s, 1, Len(prefix)) = prefix
    THEN Some(SubSeq(s, Len(prefix) + 1, Len(s)))
    ELSE {}

\* str::rsplit_once: split at the last occurrence of the delimiter
rsplit_once(s, delimiter) ==
    LET at == {i \in 1..Len(s) : s[i] = delimiter}
    IN  IF at = {} THEN {}
        ELSE LET k == CHOOSE i \in at : \A j \in at : j <= i
             IN  Some(<<SubSeq(s, 1, k - 1), SubSeq(s, k + 1, Len(s))>>)

\* str::parse::<u16>(): an optional plus sign, at least one digit, and a
\* value that fits sixteen bits
parse_u16(s) ==
    LET body == IF s /= <<>> /\ s[1] = "+" THEN Tail(s) ELSE s
    IN  IF /\ body /= <<>>
           /\ \A i \in 1..Len(body) : IsDigit(body[i])
           /\ DecimalValue(body) <= MaxPort
        THEN Some(DecimalValue(body))
        ELSE {}

\* the host and port of what follows the scheme; a missing port takes the
\* default of the scheme, a port that does not parse is an error
host_port(after_scheme, default_port) ==
    LET split == rsplit_once(after_scheme, ":")
    IN  IF split = {} THEN Some(<<after_scheme, default_port>>)
        ELSE LET hp == CHOOSE x \in split : TRUE
                 port == parse_u16(hp[2])
             IN  IF port = {} THEN {}
                 ELSE Some(<<hp[1], CHOOSE v \in port : TRUE>>)

\* MqttPublisher::new: Ok with the broker's address, or Err (the empty set) when the
\* URL has neither scheme or a port that does not parse
MqttPublisherNew(url) ==
    LET plain == strip_prefix(url, <<"m", "q", "t", "t", ":", "/", "/">>)
        tls == strip_prefix(url, <<"m", "q", "t", "t", "s", ":", "/", "/">>)
    IN  IF plain /= {} THEN host_port(CHOOSE x \in plain : TRUE, MqttPort)
        ELSE IF tls /= {} THEN host_port(CHOOSE x \in tls : TRUE, MqttsPort)
        ELSE {}

InitOutcomes_always_ok(s) == {TRUE}

\* the outcomes of a sink's initialisation: AlertHistory::new opens the
\* database file and can fail; MqttPublisher::new fails on a malformed broker
\* URL only; the web task hands its Receiver to the forwarder before it binds
\* its listener
InitOutcomes(s) ==
    CASE s = "history" -> {TRUE, FALSE}
      [] s = "mqtt" -> {MqttPublisherNew(config.mqtt_broker_url) /= {}}
      [] OTHER -> {TRUE}

\* the head of each run(): return when disabled or when initialisation fails
\* (the Receiver is dropped and the channel closes, discarding what it held),
\* else enter the receive loop
SinkStart(s) ==
    /\ sink_pc[s] = "spawned"
    /\ \E ok \in InitOutcomes(s) :
          IF SinkEnabled(config, s) /\ ok
          THEN /\ sink_pc' = [sink_pc EXCEPT ![s] = "running"]
               /\ UNCHANGED queues
          ELSE /\ sink_pc' = [sink_pc EXCEPT ![s] = "exited"]
               /\ queues' = [queues EXCEPT ![s] = <<>>]
    /\ UNCHANGED <<config, now, alert_state, handled, next_seq, cycles, ticks, hist, store, cacheVars, ioVars>>

\* one iteration of a sink's receive loop; io_ok is the outcome of the
\* external operation of the iteration (the SQLite statement, the OS
\* notification, the hand-over to the MQTT client), should it be attempted
SinkHandle(s, io_ok) ==
    /\ sink_pc[s] = "running"
    /\ queues[s] /= <<>>
    /\ s = "mqtt" => broker.pending = {}
    /\ LET r == recv(queues[s])
           alert == r.value
           inserted == history_insert(store, alert, io_ok)
           sent == send_alert(config, alert, io_ok)
           failed == CASE s = "history" -> ~inserted.ok
                       [] s = "notification" -> ~sent.ok
                       [] s = "mqtt" -> ~io_ok
                       [] s = "web" -> FALSE
       IN  /\ handled' = [handled EXCEPT ![s] = Append(@, alert)]
           /\ queues' = [queues EXCEPT ![s] = r.rest]
           /\ store' = IF s = "history" THEN inserted.rows ELSE store
           /\ notified' = IF s = "notification" THEN notified \o sent.shows ELSE notified
           /\ broker' = IF s = "mqtt" /\ io_ok THEN publish_alert(broker, alert) ELSE broker
           /\ web' = IF s = "web" THEN broadcast_send(web, alert) ELSE web
           /\ errors' = IF failed THEN Append(errors, LogLine(s, alert)) ELSE errors
    /\ UNCHANGED <<config, now, alert_state, sink_pc, next_seq, cycles, ticks, hist,
                   cacheVars, mutex>>

\* the same with the external operation succeeding
SinkRecv(s) == SinkHandle(s, TRUE)

\* the cleanup branch of the History Store's select! loop; its interval timer
\* (first tick at once, then hourly) is left open: the pass may run at any time
HistoryCleanup ==
    /\ sink_pc["history"] = "running"
    /\ store' \in MaintenancePass(config, store, now)
    /\ UNCHANGED <<config, now, alert_state, queues, sink_pc, handled, next_seq, cycles,
                   ticks, hist, cacheVars, ioVars>>

(* ---- Broker Publisher: the eventloop task of mqtt::run ---- *)
\* mutant: the eventloop task ends at the first connection error
after_error_give_up(b, t) ==
    [b EXCEPT !.link = "none", !.loop_pc = "ended", !.attempts = @ + 1]

\* the Err arm: the error is logged and the task sleeps for the backoff
after_error(b, t) ==
    [b EXCEPT !.link = "none",
              !.loop_pc = "sleep",
              !.wake_at = t + BackoffSeconds,
              !.attempts = @ + 1]

\* one eventloop.poll(): with the broker out of reach the connection attempt
\* (or the connection held so far) fails; otherwise the client connects, and
\* once connected sends the oldest request of its channel
poll(b, t) ==
    IF ~b.net THEN after_error(b, t)
    ELSE IF b.link = "none" THEN [b EXCEPT !.link = "connected"]
    ELSE IF b.requests /= <<>>
    THEN [b EXCEPT !.published = Append(@, Head(b.requests)),
                   !.requests = Tail(@)]
    ELSE b

EventLoopPoll ==
    /\ sink_pc["mqtt"] = "running"
    /\ broker.loop_pc = "poll"
    /\ broker' = poll(broker, now)
    /\ broker' /= broker
    /\ UNCHANGED <<config, now, ticks, detectorVars, cacheVars, notified, errors, web, mutex>>

\* tokio::time::sleep(5 s) is over
EventLoopWake ==
    /\ broker.loop_pc = "sleep"
    /\ now >= broker.wake_at
    /\ broker' = [broker EXCEPT !.loop_pc = "poll"]
    /\ UNCHANGED <<config, now, ticks, detectorVars, cacheVars, notified, errors, web, mutex>>

\* a publish() that waited for room in the request channel goes through
MqttPublishResume ==
    /\ broker.pending /= {}
    /\ Len(broker.requests) < RequestCap
    /\ \E request \in broker.pending :
          broker' = [broker EXCEPT !.requests = Append(@, request), !.pending = {}]
    /\ UNCHANGED <<config, now, ticks, detectorVars, cacheVars, notified, errors, web, mutex>>

\* the environment: the broker goes out of reach, or comes back
NetChange ==
    /\ broker.flips < MaxFlips
    /\ broker' = [broker EXCEPT !.net = ~@, !.flips = @ + 1]
    /\ UNCHANGED <<config, now, ticks, detectorVars, cacheVars, notified, errors, web, mutex>>

(* ---- Live Broadcaster: one handle_socket task per viewer ---- *)
\* the JSON text handle_socket sends for an alert
PushMessage(alert) ==
    [ type       |-> alert.alert_type,
      severity   |-> alert.severity,
      message    |-> alert.message,
      created_at |-> alert.created_at,
      alert      |-> alert.seq ]

\* state.alert_broadcast.subscribe(): the receiver starts after the values
\* sent so far
subscribe(w, v) ==
    [w EXCEPT !.viewers[v] =
        [ViewerNew EXCEPT !.st = "open", !.joined = Len(w.sent), !.pos = Len(w.sent)]]

\* one turn of the while-let loop of handle_socket with a value or an error
\* at hand: rx.recv() is Err(Lagged) once more than BroadcastCap values were
\* sent past the receiver, and the loop ends on any Err; else the value is
\* sent to the socket, and the loop ends when that fails
\* mutant: after a lag error the loop goes on with the oldest alert the
\* channel still holds
socket_turn_resume(w, v, send_ok) ==
    LET viewer == w.viewers[v]
        pos == IF Len(w.sent) - viewer.pos > BroadcastCap
               THEN Len(w.sent) - BroadcastCap ELSE viewer.pos
    IN  IF send_ok
        THEN [w EXCEPT !.viewers[v].pos = pos + 1,
                       !.viewers[v].pushed = Append(@, PushMessage(w.sent[pos + 1]))]
        ELSE [w EXCEPT !.viewers[v].st = "closed", !.viewers[v].why = "disconnected"]

socket_turn(w, v, send_ok) ==
    LET viewer == w.viewers[v]
    IN  IF Len(w.sent) - viewer.pos > BroadcastCap
        THEN [w EXCEPT !.viewers[v].st = "closed", !.viewers[v].why = "lagged"]
        ELSE IF send_ok
        THEN [w EXCEPT !.viewers[v].pos = @ + 1,
                       !.viewers[v].pushed = Append(@, PushMessage(w.sent[viewer.pos + 1]))]
        ELSE [w EXCEPT !.viewers[v].st = "closed", !.viewers[v].why = "disconnected"]

\* a viewer opens /ws and handle_socket subscribes
ViewerConnect(v) ==
    /\ sink_pc["web"] = "running"
    /\ web.viewers[v].st = "absent"
    /\ web' = subscribe(web, v)
    /\ UNCHANGED <<config, now, ticks, detectorVars, cacheVars, notified, errors, broker, mutex>>

ViewerRecv(v, send_ok) ==
    /\ web.viewers[v].st = "open"
    /\ web.viewers[v].pos < Len(web.sent)
    /\ web' = socket_turn(web, v, send_ok)
    /\ UNCHANGED <<config, now, ticks, detectorVars, cacheVars, notified, errors, broker, mutex>>

\* cache_space_weather, cache_forecast, cache_dx_spots, cache_satellites up
\* to the lock: CacheEntry::new reads the clock
CachePutCreate(kind, data) ==
    /\ cache_ops.nputs < MaxPuts
    /\ LET entry == CacheEntryNew(data, Ttl(kind), now)
       IN  cache_ops' = [cache_ops EXCEPT !.puts[kind] = @ \cup {entry},
                                          !.made[kind] = @ \cup {entry},
                                          !.nputs = @ + 1]
    /\ UNCHANGED <<config, now, ticks, detectorVars, cache, got, fetches, ioVars>>

\* the same from the lock on: the slot is assigned under its lock
CachePutStore(kind) ==
    /\ \E entry \in cache_ops.puts[kind] :
          /\ cache' = [cache EXCEPT ![kind] = store_entry(@, entry)]
          /\ cache_ops' = [cache_ops EXCEPT
                              !.puts[kind] = @ \ {entry},
                              !.during = IF cache_ops.clear_pc > 0 THEN @ \cup {kind} ELSE @]
          /\ got' = [op |-> "put", kind |-> kind, entry |-> entry, at |-> now]
    /\ UNCHANGED <<config, now, ticks, detectorVars, fetches, ioVars>>

\* get_space_weather, get_forecast, get_dx_spots, get_satellites
CacheGet(kind) ==
    /\ got' = [op |-> "get", kind |-> kind, slot |-> cache[kind],
                result |-> cache_get(cache[kind], now), at |-> now]
    /\ UNCHANGED <<config, now, ticks, detectorVars, cache, cache_ops, fetches, ioVars>>

\* one statement of clear_all: one slot is emptied under its own lock
ClearAllStep ==
    /\ cache_ops.clear_pc > 0 \/ cache_ops.nclears < MaxClears
    /\ LET k == cache_ops.clear_pc + 1
       IN  /\ cache' = [cache EXCEPT ![ClearOrder[k]] = {}]
           /\ cache_ops' = [cache_ops EXCEPT
                               !.clear_pc = IF k = Len(ClearOrder) THEN 0 ELSE k,
                               !.during = IF k = 1 THEN {} ELSE @,
                               !.nclears = IF k = 1 THEN @ + 1 ELSE @]
           /\ got' = [op |-> "clear", kind |-> ClearOrder[k], at |-> now]
    /\ UNCHANGED <<config, now, ticks, detectorVars, fetches, ioVars>>

(***************************************************************************)
(* DataFetcher (data/fetcher.rs).  An upstream outcome is a Result: the    *)
(* empty set (the request, the connection or the parse failed) or the      *)
(* singleton of the data received.                                         *)
(***************************************************************************)
Fail == {}

\* HamQslSolarData::default() through build_space_weather
HamQslDefault == QuietWeather

\* what the fetch puts in the cache, as an Option: fetch_space_weather
\* replaces a failed HamQSL response by the default and caches what it built;
\* fetch_dx_cluster caches a non-empty list of spots only
FetchCaches(kind, outcome) ==
    IF kind = "space_weather"
    THEN Some(IF outcome = Fail THEN HamQslDefault ELSE Unwrap(outcome))
    ELSE IF outcome = Fail \/ Unwrap(outcome) = <<>> THEN {} ELSE Some(Unwrap(outcome))

\* what the fetch returns (always Ok for these two kinds)
FetchReturns(kind, outcome) ==
    IF kind = "space_weather"
    THEN IF outcome = Fail THEN HamQslDefault ELSE Unwrap(outcome)
    ELSE IF outcome = Fail THEN <<>> ELSE Unwrap(outcome)

\* fetch_space_weather / fetch_dx_cluster up to the first await: the cache is
\* asked first, and a hit is returned without an upstream request
FetchBegin(kind) ==
    /\ cache_ops.fetch_pc[kind] = "idle"
    /\ fetches[kind] < MaxFetches
    /\ LET cached == cache_get(cache[kind], now)
       IN  IF cached /= {}
           THEN /\ got' = [op |-> "fetch", kind |-> kind, upstream |-> FALSE,
                           failed |-> FALSE, result |-> cached, at |-> now]
                /\ UNCHANGED <<cache_ops, fetches>>
           ELSE /\ cache_ops' = [cache_ops EXCEPT !.fetch_pc[kind] = "upstream"]
                /\ fetches' = [fetches EXCEPT ![kind] = @ + 1]
                /\ UNCHANGED got
    /\ UNCHANGED <<config, now, ticks, detectorVars, cache, ioVars>>

\* the same from the upstream outcome to the return; nothing is awaited
\* between building the value and storing it
FetchEnd(kind, outcome) ==
    /\ cache_ops.fetch_pc[kind] = "upstream"
    /\ LET caches == FetchCaches(kind, outcome)
           entries == {CacheEntryNew(data, Ttl(kind), now) : data \in caches}
       IN  /\ cache' = IF entries = {} THEN cache
                       ELSE [cache EXCEPT ![kind] =
                                store_entry(@, CHOOSE e \in entries : TRUE)]
           /\ cache_ops' = [cache_ops EXCEPT !.fetch_pc[kind] = "idle",
                                              !.made[kind] = @ \cup entries]
           /\ got' = [op |-> "fetch", kind |-> kind, upstream |-> TRUE,
                      failed |-> (outcome = Fail),
                      result |-> Some(FetchReturns(kind, outcome)), at |-> now]
    /\ UNCHANGED <<config, now, ticks, detectorVars, fetches, ioVars>>

\* main() up to the spawn of the background tasks
InitWith(configs) ==
    /\ config \in configs
    /\ now = 0
    /\ alert_state = AlertStateNew
    /\ queues = [s \in Sinks |-> <<>>]
    /\ sink_pc = [s \in Sinks |-> "spawned"]
    /\ handled = [s \in Sinks |-> <<>>]
    /\ next_seq = 0
    /\ cycles = 0
    /\ ticks = 0
    /\ hist = <<>>
    /\ store = {}
    /\ cache = [k \in CacheKinds |-> {}]
    /\ cache_ops = CacheOpsNew
    /\ got = GotNothing
    /\ fetches = [k \in CacheKinds |-> 0]
    /\ notified = <<>>
    /\ errors = <<>>
    /\ broker = BrokerNew
    /\ web = WebNew
    /\ mutex = MutexNew

\* the same, once every sink task has run the head of its run(): the data task
\* sleeps 100 ms before its first cycle
InitStartedWith(configs) ==
    /\ config \in configs
    /\ now = 0
    /\ alert_state = AlertStateNew
    /\ queues = [s \in Sinks |-> <<>>]
    /\ sink_pc = [s \in Sinks |-> IF SinkEnabled(config, s) THEN "running" ELSE "exited"]
    /\ handled = [s \in Sinks |-> <<>>]
    /\ next_seq = 0
    /\ cycles = 0
    /\ ticks = 0
    /\ hist = <<>>
    /\ store = {}
    /\ cache = [k \in CacheKinds |-> {}]
    /\ cache_ops = CacheOpsNew
    /\ got = GotNothing
    /\ fetches = [k \in CacheKinds |-> 0]
    /\ notified = <<>>
    /\ errors = <<>>
    /\ broker = BrokerNew
    /\ web = WebNew
    /\ mutex = MutexNew

(***************************************************************************)
(* Spec: detection cycles, the clock and acknowledgments; the sink tasks    *)
(* have been spawned and not yet scheduled.                                *)
(***************************************************************************)
LongConfig ==
    [DefaultConfig EXCEPT !.alert_duration_seconds = 600,
                          !.desktop_notifications_enabled = TRUE,
                          !.mqtt_enabled = TRUE,
                          !.web_dashboard_enabled = TRUE]

Configs == {DefaultConfig, LongConfig}

Snapshots ==
    { Snapshot(QuietWeather, <<>>, <<>>),
      Snapshot([kp |-> 60, flux |-> 0, ap |-> 0], <<>>, <<>>),
      Snapshot([kp |-> 0, flux |-> 0, ap |-> 150], <<>>, <<>>) }

TickSteps == {1, 299}

Init == InitWith(Configs)

Next ==
    \/ \E snap \in Snapshots : DetectCycle(snap, FALSE, MaxCycles)
    \/ \E d \in TickSteps : Tick(d)
    \/ AcknowledgeLatest
    \/ AcknowledgeAll

Spec == Init /\ [][Next]_vars

(***************************************************************************)
(* SpecSinks: detection cycles against the four sink tasks, which start    *)
(* and drain their queues at their own pace.                               *)
(***************************************************************************)
AllSinksConfig ==
    [DefaultConfig EXCEPT !.desktop_notifications_enabled = TRUE,
                          !.mqtt_enabled = TRUE,
                          !.web_dashboard_enabled = TRUE]

SinkConfigs == {DefaultConfig, AllSinksConfig}

SinkSnapshots ==
    { Snapshot([kp |-> 60, flux |-> 0, ap |-> 0], <<>>, <<>>),
      Snapshot([kp |-> 0, flux |-> 150, ap |-> 0], <<>>, <<>>) }

InitSinks == InitWith(SinkConfigs)

NextSinks ==
    \/ \E snap \in SinkSnapshots : DetectCycle(snap, TRUE, MaxCyclesSinks)
    \/ \E s \in Sinks : SinkStart(s)
    \/ \E s \in Sinks : SinkRecv(s)

SpecSinks == InitSinks /\ [][NextSinks]_vars

(***************************************************************************)
(* Rule specifications: detection cycles alone, one rule's input varying,  *)
(* with every Phase 9 feature switched off and its task already returned.  *)
(* The log keeps every cycle of a run for as long as the inputs follow the *)
(* script of the rule's reference scenario, and the last cycle otherwise.  *)
(***************************************************************************)
NoSinksConfig == [DefaultConfig EXCEPT !.history_enabled = FALSE]

Follows(script, snap) ==
    /\ Len(hist) = cycles
    /\ cycles < Len(script)
    /\ snap = script[cycles + 1]
    /\ \A k \in 1..Len(hist) : hist[k].snap = script[k]

(* ---- SpecSat: satellite passes ---- *)
WatchAllConfig ==
    [NoSinksConfig EXCEPT !.watched_satellites = {},
                          !.satellite_elevation_threshold = 25,
                          !.satellite_countdown_enabled = FALSE]

SatConfigs == {NoSinksConfig, WatchAllConfig}

SatElevations == {10, 20, 25, 31, 35, 40}

SatSnap(sats) == Snapshot(QuietWeather, <<>>, sats)

SatSnapshots ==
    {SatSnap(<<Sat(S_ISS, e)>>) : e \in SatElevations}
        \cup { SatSnap(<<Sat(S_NOAA, 40)>>),
               SatSnap(<<Sat(S_iss_zarya, 35), Sat(S_ISS, 30)>>),
               SatSnap(<<>>) }

SatScriptElevations == <<10, 20, 31, 40, 25, 35>>

SatScript == [k \in 1..Len(SatScriptElevations) |-> SatSnap(<<Sat(S_ISS, SatScriptElevations[k])>>)]

InitSat == InitStartedWith(SatConfigs)

NextSat == \E snap \in SatSnapshots : DetectCycle(snap, Follows(SatScript, snap), MaxCyclesSat)

SpecSat == InitSat /\ [][NextSat]_vars

(* ---- SpecKp: Kp spike and aurora ---- *)
SensitiveConfig ==
    [NoSinksConfig EXCEPT !.kp_spike_threshold = 15, !.kp_alert_threshold = 40]

KpConfigs == {NoSinksConfig, SensitiveConfig}

KpValues == {30, 40, 50, 55, 60, 65, 80}

KpSnap(kp) == Snapshot([kp |-> kp, flux |-> 0, ap |-> 0], <<>>, <<>>)

KpSnapshots == {KpSnap(kp) : kp \in KpValues}

AuroraScriptKp == <<40, 60, 60, 60, 30>>

AuroraScript == [k \in 1..Len(AuroraScriptKp) |-> KpSnap(AuroraScriptKp[k])]

InitKp == InitStartedWith(KpConfigs)

NextKp == \E snap \in KpSnapshots : DetectCycle(snap, Follows(AuroraScript, snap), MaxCyclesRule)

SpecKp == InitKp /\ [][NextKp]_vars

(* ---- SpecXray: X-ray flares ---- *)
XrayConfigs == {NoSinksConfig}

FluxValues == {0, 5, 60, 150, 2000}

XraySnap(flux) == Snapshot([kp |-> 0, flux |-> flux, ap |-> 0], <<>>, <<>>)

XraySnapshots == {XraySnap(f) : f \in FluxValues}

\* fluxes of classes B, B, M, M, X, X, M
XrayScriptFlux == <<5, 5, 150, 150, 2000, 2000, 150>>

XrayScript == [k \in 1..Len(XrayScriptFlux) |-> XraySnap(XrayScriptFlux[k])]

InitXray == InitStartedWith(XrayConfigs)

NextXray == \E snap \in XraySnapshots : DetectCycle(snap, Follows(XrayScript, snap), MaxCyclesXray)

SpecXray == InitXray /\ [][NextXray]_vars

(* ---- SpecE2E: a Kp jump through the router into the History Store ---- *)
\* Config::data_update_interval: seconds between two detection cycles
UpdateInterval == 5

NotifyConfig == [DefaultConfig EXCEPT !.desktop_notifications_enabled = TRUE]

E2EConfigs == {DefaultConfig, NotifyConfig}

E2ESnapshots == {KpSnap(30), KpSnap(65)}

InitE2E == InitWith(E2EConfigs)

NextE2E ==
    \/ \E snap \in E2ESnapshots : DetectCycle(snap, TRUE, MaxCyclesSinks)
    \/ Tick(UpdateInterval)
    \/ \E s \in Sinks : SinkStart(s)
    \/ \E s \in Sinks : SinkRecv(s)

\* a spawned task is scheduled, and a running History task is woken by a
\* non-empty queue
SpecE2E ==
    /\ InitE2E /\ [][NextE2E]_vars
    /\ WF_vars(SinkStart("history"))
    /\ WF_vars(SinkRecv("history"))

(* ---- SpecCache: callers of the ResponseCache on several threads ---- *)
StormWeather == [kp |-> 60, flux |-> 150, ap |-> 0]

PutKinds == {"space_weather"}

SampleData(kind) ==
    IF kind = "space_weather" THEN {QuietWeather, StormWeather}
    ELSE {<<Spot(14074, <<"K", "1">>, S_FT8)>>}

\* clock advances that bring an entry to its TTL (600 for spots, 600 + 1200
\* for space weather), short of it and past it
CacheTickSteps == {600, 1200}

InitCache == InitWith({DefaultConfig})

NextCache ==
    \/ \E kind \in PutKinds : \E data \in SampleData(kind) : CachePutCreate(kind, data)
    \/ \E kind \in PutKinds : CachePutStore(kind)
    \/ \E kind \in PutKinds : CacheGet(kind)
    \/ ClearAllStep
    \/ \E d \in CacheTickSteps : Tick(d)

SpecCache == InitCache /\ [][NextCache]_vars

(* ---- SpecFetch: refreshes of space weather and DX spots ---- *)
FetchKinds == {"space_weather", "dx_spots"}

\* the data an upstream can deliver
UpstreamData(kind) ==
    IF kind = "space_weather" THEN {StormWeather}
    ELSE {<<>>, <<Spot(14074, <<"K", "1">>, S_FT8)>>}

NextFetch ==
    \/ \E kind \in FetchKinds : FetchBegin(kind)
    \/ \E kind \in FetchKinds : \E outcome \in {Fail} \cup {Some(d) : d \in UpstreamData(kind)} :
          FetchEnd(kind, outcome)
    \/ \E d \in CacheTickSteps : Tick(d)

SpecFetch == InitCache /\ [][NextFetch]_vars

(* ---- SpecCme: solar flux and Ap ---- *)
CmeConfigs == {NoSinksConfig}

CmeFluxValues == {0, 200, 201, 600}

CmeApValues == {0, 100, 101}

CmeSnap(flux, ap) == Snapshot([kp |-> 0, flux |-> flux, ap |-> ap], <<>>, <<>>)

CmeSnapshots == {CmeSnap(f, a) : f \in CmeFluxValues, a \in CmeApValues}

InitCme == InitStartedWith(CmeConfigs)

NextCme == \E snap \in CmeSnapshots : DetectCycle(snap, FALSE, MaxCyclesRule)

SpecCme == InitCme /\ [][NextCme]_vars

(***************************************************************************)
(* SpecNotify: the Notification Sink, whose OS notifications can fail,     *)
(* against detection cycles that produce Notice, Warning and Critical      *)
(* alerts.                                                                 *)
(***************************************************************************)
NotifyOnlyConfig ==
    [DefaultConfig EXCEPT !.history_enabled = FALSE,
                          !.desktop_notifications_enabled = TRUE]

NotifyConfigs ==
    {NotifyOnlyConfig, [NotifyOnlyConfig EXCEPT !.notification_min_severity = Critical]}

NotifySnapshots ==
    { Snapshot(QuietWeather, <<Spot(14074, <<"K", "1">>, S_FT8)>>, <<>>),
      KpSnap(55),
      KpSnap(65) }

InitNotify == InitStartedWith(NotifyConfigs)

NextNotify ==
    \/ \E snap \in NotifySnapshots : DetectCycle(snap, FALSE, MaxCycles)
    \/ \E io_ok \in BOOLEAN : SinkHandle("notification", io_ok)

SpecNotify == InitNotify /\ [][NextNotify]_vars

(***************************************************************************)
(* SpecBroker: the Broker Publisher (publish loop and eventloop task)      *)
(* against detection cycles at Kp 6.5 that also fill the History Store's   *)
(* queue, while the broker goes out of reach and comes back.               *)
(***************************************************************************)
BrokerConfig == [DefaultConfig EXCEPT !.mqtt_enabled = TRUE]

InitBroker == InitStartedWith({BrokerConfig})

NextBroker ==
    \/ DetectCycle(KpSnap(65), FALSE, MaxCyclesBroker)
    \/ Tick(UpdateInterval)
    \/ SinkRecv("mqtt")
    \/ MqttPublishResume
    \/ EventLoopPoll
    \/ EventLoopWake
    \/ NetChange

SpecBroker ==
    /\ InitBroker
    /\ [][NextBroker]_vars
    /\ WF_vars(EventLoopPoll)
    /\ WF_vars(EventLoopWake)
    /\ WF_vars(Tick(UpdateInterval))

(***************************************************************************)
(* SpecWeb: the Live Broadcaster (forwarder and one task per viewer)       *)
(* against detection cycles at Kp 6.5.                                     *)
(***************************************************************************)
WebConfig ==
    [DefaultConfig EXCEPT !.history_enabled = FALSE, !.web_dashboard_enabled = TRUE]

InitWeb == InitStartedWith({WebConfig})

NextWeb ==
    \/ DetectCycle(KpSnap(65), FALSE, MaxCycles)
    \/ SinkRecv("web")
    \/ \E v \in Viewers : ViewerConnect(v)
    \/ \E v \in Viewers : \E send_ok \in BOOLEAN : ViewerRecv(v, send_ok)

SpecWeb == InitWeb /\ [][NextWeb]_vars

(***************************************************************************)
(* SpecFaults: the History Store, the Notification Sink and the Broker     *)
(* Publisher, each able to fail on any alert, against detection cycles.    *)
(***************************************************************************)
FaultySinks == {"history", "notification", "mqtt"}

FaultsConfig ==
    [DefaultConfig EXCEPT !.desktop_notifications_enabled = TRUE,
                          !.notification_min_severity = Info,
                          !.mqtt_enabled = TRUE]

InitFaults == InitStartedWith({FaultsConfig})

NextFaults ==
    \/ DetectCycle(KpSnap(60), FALSE, MaxCyclesSinks)
    \/ \E s \in FaultySinks : \E io_ok \in BOOLEAN :
          (io_ok \/ Len(errors) < MaxFaults) /\ SinkHandle(s, io_ok)

SpecFaults == InitFaults /\ [][NextFaults]_vars

(***************************************************************************)
(* SpecHistory: the History Store task (inserts and maintenance passes)    *)
(* against detection cycles, with a retention of one day and room for one  *)
(* row.                                                                    *)
(***************************************************************************)
HistoryConfig ==
    [DefaultConfig EXCEPT !.history_retention_days = 1,
                          !.history_max_entries = 1]

HistoryConfigs == {HistoryConfig}

HistorySnapshots ==
    { Snapshot(QuietWeather,
               <<Spot(14074, <<"K", "1">>, S_FT8), Spot(7074, <<"K", "2">>, S_FT8)>>, <<>>),
      KpSnap(65) }

HistoryTickSteps == {UpdateInterval, SecondsPerDay}

InitHistory == InitWith(HistoryConfigs)

NextHistory ==
    \/ \E snap \in HistorySnapshots : DetectCycle(snap, FALSE, MaxCycles)
    \/ \E d \in HistoryTickSteps : Tick(d)
    \/ SinkStart("history")
    \/ SinkRecv("history")
    \/ HistoryCleanup

SpecHistory == InitHistory /\ [][NextHistory]_vars

(***************************************************************************)
(* Observations used by the properties.                                    *)
(***************************************************************************)
LedgerNow == alert_state.active_alerts

SeqToSet(q) == {q[i] : i \in 1..Len(q)}

Occurrences(q, x) == Cardinality({i \in 1..Len(q) : q[i] = x})

DedupWindowSeconds == DedupMinutes * SecondsPerMinute

LastCycle == hist[Len(hist)]

(* C1: the ledger never holds two alerts of the same type that are both   *)
(* active (not expired, not acknowledged) and whose creation times are    *)
(* less than 5 minutes apart.                                             *)
C1_DedupInvariant ==
    \A i, j \in 1..Len(LedgerNow) :
        ( /\ i < j
          /\ LedgerNow[i].alert_type = LedgerNow[j].alert_type
          /\ is_active(LedgerNow[i], now)
          /\ is_active(LedgerNow[j], now) )
        => Abs(LedgerNow[j].created_at - LedgerNow[i].created_at) >= DedupWindowSeconds

\* the ledger holds two active alerts of one type (5 minutes apart), and the
\* cycle just run produced a further candidate of that type that was rejected
C1_Witness ==
    /\ hist /= <<>>
    /\ \E i, j \in 1..Len(LedgerNow) :
          /\ i < j
          /\ LedgerNow[i].alert_type = LedgerNow[j].alert_type
          /\ is_active(LedgerNow[i], now)
          /\ is_active(LedgerNow[j], now)
          /\ \E a \in SeqToSet(LastCycle.produced) :
                /\ a.alert_type = LedgerNow[i].alert_type
                /\ a \notin SeqToSet(LastCycle.accepted)

(* C2: an alert is passed to distribute only if add_alert accepted it:    *)
(* every alert a cycle distributed is one the cycle appended to the       *)
(* ledger.                                                                *)
C2_DistributedOnlyIfAccepted ==
    \A k \in 1..Len(hist) :
        SeqToSet(hist[k].distributed) \subseteq SeqToSet(hist[k].accepted)

(* C3: every alert a cycle appended to the ledger, whatever its type, was *)
(* passed to distribute exactly once in that cycle.                       *)
C3_AcceptedDistributedOnce ==
    \A k \in 1..Len(hist) :
        \A a \in SeqToSet(hist[k].accepted) :
            Occurrences(hist[k].distributed, a) = 1

Min2(a, b) == IF a <= b THEN a ELSE b

\* what one sink's queue holds after a cycle that distributed ds, given only
\* that sink's own queue, capacity and receiver
QueueAfter(q, closed, cap, ds) ==
    IF closed THEN q
    ELSE q \o SubSeq(ds, 1, Min2(Len(ds), cap - Len(q)))

(* C4: distribute never blocks the detection cycle.  A cycle can run in   *)
(* every state, whatever the queues hold; and it leaves each sink's queue *)
(* as that sink's own free room decides: a full (or closed) queue drops   *)
(* the new alert for that sink only, every other sink still gets it.      *)
C4_NonBlockingDistribute ==
    /\ [](cycles < MaxCyclesSinks =>
            ENABLED (\E snap \in SinkSnapshots : DetectCycle(snap, TRUE, MaxCyclesSinks)))
    /\ [][cycles' = cycles + 1 =>
            \A s \in Sinks :
                queues'[s] = QueueAfter(queues[s], sink_pc[s] = "exited", Capacity(s),
                                        hist'[Len(hist')].distributed)]_vars

\* an alert of the cycle just run was dropped at one sink, whose queue is
\* full, and sits in the queues of the other three
C4_Witness ==
    /\ hist /= <<>>
    /\ \E a \in SeqToSet(LastCycle.distributed) :
          \E s \in Sinks :
             /\ Len(queues[s]) = Capacity(s)
             /\ a \notin SeqToSet(queues[s]) \cup SeqToSet(handled[s])
             /\ \A r \in Sinks \ {s} : a \in SeqToSet(queues[r])

RECURSIVE IsSubsequence(_, _)
IsSubsequence(a, b) ==
    IF a = <<>> THEN TRUE
    ELSE IF b = <<>> THEN FALSE
    ELSE IF Head(a) = Head(b) THEN IsSubsequence(Tail(a), Tail(b))
    ELSE IsSubsequence(a, Tail(b))

RECURSIVE Flatten(_)
Flatten(ss) == IF ss = <<>> THEN <<>> ELSE Head(ss) \o Flatten(Tail(ss))

\* every alert passed to distribute so far, in call order
AllDistributed == Flatten([k \in 1..Len(hist) |-> hist[k].distributed])

(* C5: for each sink taken alone, the alerts it has taken from its queue  *)
(* (and those still queued behind them) are a subsequence of the alerts   *)
(* passed to distribute, in the order of the distribute calls.            *)
C5_PerSinkOrder ==
    \A s \in Sinks : IsSubsequence(handled[s] \o queues[s], AllDistributed)

\* one sink has handled two alerts with a dropped one between them, while
\* another sink still holds an earlier alert than one already handled there
C5_Witness ==
    \E s \in Sinks :
        /\ Len(handled[s]) >= 2
        /\ handled[s][2].seq > handled[s][1].seq + 1
        /\ \E r \in Sinks \ {s} :
              \E x \in SeqToSet(queues[r]) : x.seq < handled[s][2].seq

OfType(alerts, type) == SelectSeq(alerts, LAMBDA a : a.alert_type = type)

\* per cycle of the log, how many alerts of the type the rules created
CountsOf(type) == [k \in 1..Len(hist) |-> Len(OfType(hist[k].produced, type))]

ScriptDone(script) ==
    /\ Len(hist) = Len(script)
    /\ \A k \in 1..Len(script) : hist[k].snap = script[k]

(* ---- satellite passes ---- *)
\* the elevation last observed for the satellite of observation i of cycle e:
\* an earlier observation of this snapshot, else the one recorded before the
\* cycle, else 0 for a satellite never observed
PrevElevation(e, i) ==
    LET sats == e.snap.satellites
        earlier == {j \in 1..(i - 1) :
                        sats[j].name = sats[i].name /\ is_watched_satellite(config, sats[j])}
    IN  IF earlier /= {}
        THEN sats[CHOOSE j \in earlier : \A l \in earlier : l <= j].elevation
        ELSE MapGetOr(e.pre.last_satellite_elevations, sats[i].name, 0)

Crosses(e, i) ==
    /\ is_watched_satellite(config, e.snap.satellites[i])
    /\ e.snap.satellites[i].elevation >= config.satellite_elevation_threshold
    /\ PrevElevation(e, i) < config.satellite_elevation_threshold

CrossingNames(e) ==
    LET idx == SelectSeq([i \in 1..Len(e.snap.satellites) |-> i], LAMBDA i : Crosses(e, i))
    IN  [n \in 1..Len(idx) |-> e.snap.satellites[idx[n]].name]

PassNames(e) ==
    LET passes == OfType(e.produced, "SatellitePass")
    IN  [n \in 1..Len(passes) |-> passes[n].message[2]]

(* C6: with satellite alerts enabled, a cycle produces a pass alert for a *)
(* watched satellite exactly when its elevation is at or above the        *)
(* threshold and its previously observed elevation was below it; ISS      *)
(* elevations 10,20,31,40,25,35 with threshold 30 give two alerts, at the *)
(* 31 and the 35 samples.                                                 *)
C6_PassEdgeTriggered ==
    config.satellite_alerts_enabled =>
        /\ \A k \in 1..Len(hist) :
              /\ PassNames(hist[k]) = CrossingNames(hist[k])
              /\ OfType(hist[k].distributed, "SatellitePass") = OfType(hist[k].produced, "SatellitePass")
        /\ (ScriptDone(SatScript) /\ config.satellite_elevation_threshold = 30)
              => CountsOf("SatellitePass") = <<0, 0, 1, 0, 0, 1>>

\* the six reference samples have been evaluated
C6_Witness ==
    /\ ScriptDone(SatScript)
    /\ config.satellite_elevation_threshold = 30
    /\ Len(OfType(LastCycle.produced, "SatellitePass")) = 1

(* ---- aurora ---- *)
(* C7: with space-weather alerts enabled, every cycle whose Kp is at or   *)
(* above the alert threshold fires one aurora alert, also right after a   *)
(* cycle that fired one, and a cycle below the threshold fires none; Kp   *)
(* 4,6,6,6,3 with threshold 5 gives 3 aurora alerts.                      *)
C7_AuroraLevelTriggered ==
    config.space_weather_alerts_enabled =>
        /\ \A k \in 1..Len(hist) :
              /\ Len(OfType(hist[k].produced, "Aurora")) =
                    (IF hist[k].snap.space_weather.kp >= config.kp_alert_threshold THEN 1 ELSE 0)
              /\ OfType(hist[k].distributed, "Aurora") = OfType(hist[k].produced, "Aurora")
        /\ (ScriptDone(AuroraScript) /\ config.kp_alert_threshold = 50)
              => CountsOf("Aurora") = <<0, 1, 1, 1, 0>>

\* the five reference samples have been evaluated, three of them firing
C7_Witness ==
    /\ ScriptDone(AuroraScript)
    /\ config.kp_alert_threshold = 50
    /\ Len(OfType(hist[3].produced, "Aurora")) = 1
    /\ Len(OfType(hist[4].produced, "Aurora")) = 1

(* ---- X-ray flares ---- *)
\* the class of a flux by the thresholds alone
FluxClass(flux) ==
    IF flux > 1000 THEN <<"X">>
    ELSE IF flux > 100 THEN <<"M">>
    ELSE IF flux > 10 THEN <<"C">>
    ELSE <<"B">>

(* C8: an X-ray alert fires in a cycle only when the class of the cycle's *)
(* flux differs from the class recorded in the previous cycle (and is     *)
(* watched); classes B,B,M,M,X,X,M with M and X watched give 3 alerts.    *)
C8_XrayOnlyOnClassChange ==
    config.space_weather_alerts_enabled =>
        /\ \A k \in 1..Len(hist) :
              OfType(hist[k].produced, "XrayFlare") /= <<>> =>
                  /\ FluxClass(hist[k].snap.space_weather.flux) /= hist[k].pre.last_xray_class
                  /\ FluxClass(hist[k].snap.space_weather.flux) \in config.xray_alert_classes
        /\ ScriptDone(XrayScript) => CountsOf("XrayFlare") = <<0, 0, 1, 0, 1, 0, 1>>

(* ---- Kp spike ---- *)
(* C9: with space-weather alerts enabled, a cycle fires a Kp-spike alert  *)
(* exactly when its Kp minus last_kp is at least the spike threshold, and *)
(* after the cycle last_kp is that cycle's Kp whether or not a spike      *)
(* fired; a Kp that stays where it was fires no spike.                    *)
C9_KpSpikeRule ==
    config.space_weather_alerts_enabled =>
        /\ \A k \in 1..Len(hist) :
              /\ Len(OfType(hist[k].produced, "KpSpike")) =
                    (IF hist[k].snap.space_weather.kp - hist[k].pre.last_kp
                            >= config.kp_spike_threshold THEN 1 ELSE 0)
              /\ hist[k].snap.space_weather.kp = hist[k].pre.last_kp
                    => OfType(hist[k].produced, "KpSpike") = <<>>
              /\ k < Len(hist) => hist[k + 1].pre.last_kp = hist[k].snap.space_weather.kp
        /\ hist /= <<>> => alert_state.last_kp = LastCycle.snap.space_weather.kp

\* a spike fired (its alert is in the ledger) and the cycle just run saw the
\* same high Kp again and fired none
C9_Witness ==
    /\ hist /= <<>>
    /\ LastCycle.snap.space_weather.kp >= 60
    /\ LastCycle.pre.last_kp = LastCycle.snap.space_weather.kp
    /\ OfType(LastCycle.produced, "KpSpike") = <<>>
    /\ OfType(LedgerNow, "KpSpike") /= <<>>

\* the severity the claim gives for a Kp (in tenths)
SeverityForKp(kp) ==
    CASE kp >= 80 -> Emergency
      [] kp >= 60 /\ kp < 80 -> Critical
      [] kp >= 50 /\ kp < 60 -> Warning
      [] OTHER -> Notice

(* C10: the severity of a Kp-spike alert is decided by the Kp of the      *)
(* cycle that fired it alone: Emergency from 8, Critical from 6, Warning  *)
(* from 5, Notice below; the size of the jump plays no part.              *)
C10_KpSpikeSeverity ==
    \A k \in 1..Len(hist) :
        \A a \in SeqToSet(OfType(hist[k].produced, "KpSpike")) :
            a.severity = SeverityForKp(hist[k].snap.space_weather.kp)

\* an Emergency spike reached by a jump of no more than 2.5
C10_Witness ==
    /\ hist /= <<>>
    /\ \E a \in SeqToSet(OfType(LastCycle.produced, "KpSpike")) :
          /\ a.severity = Emergency
          /\ LastCycle.snap.space_weather.kp - LastCycle.pre.last_kp <= 25

E2ECycle(e) ==
    /\ config.space_weather_alerts_enabled
    /\ config.kp_spike_threshold = 20
    /\ e.pre.last_kp = 30
    /\ e.snap.space_weather.kp = 65

CriticalOf(e) == SelectSeq(e.produced, LAMBDA a : a.severity = Critical)

\* the Critical alerts of the scenario's cycles so far
E2EAlerts == UNION {SeqToSet(CriticalOf(hist[k])) : k \in {j \in 1..Len(hist) : E2ECycle(hist[j])}}

HasRow(a) == \E r \in store : r.id = a.id

E2EProduced ==
    \A k \in 1..Len(hist) :
        E2ECycle(hist[k]) =>
            /\ Len(CriticalOf(hist[k])) = 1
            /\ CriticalOf(hist[k])[1].alert_type = "KpSpike"
            /\ contains(KpSpikeText(CriticalOf(hist[k])[1].message), <<"6", ".", "5">>)

E2EAtMostOnce ==
    \A a \in E2EAlerts : \A s \in Sinks : Occurrences(handled[s] \o queues[s], a) <= 1

\* the scenario's cycle enqueues its Critical alert once to sink s
E2EEnqueued(s) ==
    LET a == CriticalOf(hist'[Len(hist')])[1]
    IN  Occurrences(queues[s], a) = 0 /\ Occurrences(queues'[s], a) = 1

C13_CacheGet ==
    [][(got' /= got /\ got'.op = "get") =>
          /\ cache' = cache
          /\ got'.slot = cache[got'.kind]
          /\ got'.result =
                (IF \E e \in got'.slot : now - e.created_at < Ttl(got'.kind)
                 THEN {e.data : e \in got'.slot} ELSE {})
          /\ (got.op = "put" /\ got.kind = got'.kind /\ now = got.entry.created_at)
                => got'.result = {got.entry.data}]_vars

\* a read returned None at the instant the stored entry's age reached its
\* TTL, and the entry is still in its slot
C13_Witness ==
    /\ got.op = "get"
    /\ got.result = {}
    /\ got.at = now
    /\ \E e \in cache[got.kind] : now - e.created_at = Ttl(got.kind)

(* C14: with put, get and clear_all running concurrently, every slot is  *)
(* at all times empty or the complete entry (value and timestamp) built   *)
(* by one single put; a read returns None or the value of the one entry   *)
(* it found; and a slot changes only by being emptied or by being         *)
(* replaced as a whole with the entry of a put in progress.               *)
C14_CacheRaceFree ==
    /\ [](/\ \A kind \in CacheKinds :
              /\ Cardinality(cache[kind]) <= 1
              /\ cache[kind] \subseteq cache_ops.made[kind]
          /\ got.op = "get" =>
              /\ got.slot \subseteq cache_ops.made[got.kind]
              /\ got.result \in {{}} \cup {{e.data} : e \in got.slot})
    /\ [][\A kind \in CacheKinds :
            cache'[kind] /= cache[kind] =>
                \/ cache'[kind] = {}
                \/ \E e \in cache_ops.puts[kind] : cache'[kind] = {e}]_vars

\* a read found the entry of one put while a second put of the same kind,
\* with another value and another timestamp, had built its entry and not yet
\* stored it, and while clear_all was between two of its slots
C14_Witness ==
    /\ got.op = "get"
    /\ got.at = now
    /\ got.slot = cache[got.kind]
    /\ cache_ops.clear_pc > 0
    /\ \E e \in got.slot : \E p \in cache_ops.puts[got.kind] :
          /\ p.data /= e.data
          /\ p.created_at /= e.created_at
          /\ got.result = {e.data}

(* C15: no negative caching.  When the upstream fetch of a kind fails,   *)
(* the cache slot of that kind is left exactly as it was, and the next    *)
(* refresh of that kind goes to the upstream again.                       *)
C15_NoNegativeCaching ==
    [][\A kind \in FetchKinds :
          /\ (/\ cache_ops.fetch_pc[kind] = "upstream"
              /\ cache_ops'.fetch_pc[kind] = "idle"
              /\ got'.failed) => cache'[kind] = cache[kind]
          /\ (/\ got.op = "fetch" /\ got.kind = kind /\ got.upstream /\ got.failed
              /\ cache_ops.fetch_pc[kind] = "idle"
              /\ cache_ops'.fetch_pc[kind] = "idle"
              /\ got' /= got /\ got'.kind = kind) => got'.upstream]_vars

(* the same for the DX cluster alone, whose fetch does leave the slot as   *)
(* it was when the connection fails                                        *)
DxNoNegativeCaching ==
    [][(/\ cache_ops.fetch_pc["dx_spots"] = "upstream"
        /\ cache_ops'.fetch_pc["dx_spots"] = "idle"
        /\ got'.failed) => cache'["dx_spots"] = cache["dx_spots"]]_vars

(* ---- ledger ---- *)
\* the alerts of a ledger that are neither expired nor acknowledged at t
Kept(alerts, t) ==
    SelectSeq(alerts, LAMBDA a : ~(t > a.expires_at \/ a.acknowledged))

(* C16: cleanup_expired removes from the ledger exactly the alerts that   *)
(* are expired or acknowledged and keeps every other alert in its         *)
(* original order; called a second time with no time passing it changes   *)
(* nothing; and a detection cycle starts with it, so the ledger after a   *)
(* cycle is what cleanup kept followed by what the cycle appended.        *)
C16_CleanupExpired ==
    /\ [](LET cleaned == cleanup_expired(LedgerNow, now)
          IN  /\ cleaned = Kept(LedgerNow, now)
              /\ IsSubsequence(cleaned, LedgerNow)
              /\ \A a \in SeqToSet(LedgerNow) :
                    Occurrences(cleaned, a) =
                        (IF now > a.expires_at \/ a.acknowledged THEN 0
                         ELSE Occurrences(LedgerNow, a))
              /\ cleanup_expired(cleaned, now) = cleaned)
    /\ [][cycles' = cycles + 1 =>
            alert_state'.active_alerts =
                Kept(LedgerNow, now) \o hist'[Len(hist')].accepted]_vars

\* the ledger holds an expired alert, an acknowledged alert that has not
\* expired, and two alerts that cleanup keeps
C16_Witness ==
    \E e, a, k1, k2 \in 1..Len(LedgerNow) :
        /\ now > LedgerNow[e].expires_at
        /\ LedgerNow[a].acknowledged /\ now <= LedgerNow[a].expires_at
        /\ k1 < k2
        /\ is_active(LedgerNow[k1], now)
        /\ is_active(LedgerNow[k2], now)

\* the lifecycle state of an alert at t
Lifecycle(a, t) ==
    IF a.acknowledged THEN "Acknowledged"
    ELSE IF t > a.expires_at THEN "Expired"
    ELSE "Active"

\* the alert of the ledger that Alert::new call number n returned, as a set
Tracked(alerts, n) == {a \in SeqToSet(alerts) : a.seq = n}

(* C17: an alert enters the ledger Active; while Active it stays in the   *)
(* ledger unchanged, and leaves that state only by being acknowledged or  *)
(* by the clock passing its expires_at; once Acknowledged or Expired it   *)
(* never is Active again, and the next cleanup removes it: no alert that  *)
(* is not Active is in the ledger when a detection cycle ends.            *)
C17_Lifecycle ==
    [][\A n \in 0..next_seq' :
          LET before == Tracked(LedgerNow, n)
              after == Tracked(alert_state'.active_alerts, n)
          IN  /\ Cardinality(before) <= 1 /\ Cardinality(after) <= 1
              /\ (before = {} /\ after /= {}) =>
                    \A a \in after : Lifecycle(a, now') = "Active" /\ cycles' = cycles + 1
              /\ \A b \in before :
                    /\ Lifecycle(b, now) = "Active" =>
                          /\ after /= {}
                          /\ \A a \in after :
                                /\ [a EXCEPT !.acknowledged = FALSE] = b
                                /\ Lifecycle(a, now') = "Expired" => now' > b.expires_at
                    /\ Lifecycle(b, now) /= "Active" =>
                          /\ \A a \in after : Lifecycle(a, now') /= "Active"
                          /\ cycles' = cycles + 1 => after = {}]_vars

\* an alert that was acknowledged and has since expired as well is still in
\* the ledger, next to an Active and an Expired one, and a cycle is yet to run
C17_Witness ==
    /\ cycles < MaxCycles
    /\ \E a, b, c \in SeqToSet(LedgerNow) :
          /\ a.acknowledged /\ now > a.expires_at
          /\ Lifecycle(b, now) = "Active"
          /\ Lifecycle(c, now) = "Expired"

\* a candidate of the type, as a rule would create it now
Candidate(type) ==
    AlertNew(type, Notice, <<"candidate">>, config.alert_duration_seconds, now, next_seq)

\* the ledger holds an alert of the candidate's type that is still active and
\* was created less than five minutes before the candidate
Suppressed(alerts, c, t) ==
    \E a \in SeqToSet(alerts) :
        /\ a.alert_type = c.alert_type
        /\ ~(t > a.expires_at) /\ ~a.acknowledged
        /\ c.created_at - a.created_at < DedupWindowSeconds

(* C18: add_alert(candidate) leaves the ledger exactly as it is when the  *)
(* ledger holds an alert of the candidate's type that is still active and *)
(* was created within the last five minutes, and otherwise appends the    *)
(* candidate as the last element; either way every alert already in the   *)
(* ledger, every detector baseline and every queue stays as it was.       *)
C18_AddAlertFrame ==
    \A type \in AlertTypes :
        LET c == Candidate(type)
            st == Begin(alert_state, queues, next_seq)
            after == Ledger(st, c, now)
        IN  /\ after.as.active_alerts =
                  (IF Suppressed(LedgerNow, c, now) THEN LedgerNow
                   ELSE LedgerNow \o <<c>>)
            /\ SubSeq(after.as.active_alerts, 1, Len(LedgerNow)) = LedgerNow
            /\ Baselines(after.as) = Baselines(alert_state)
            /\ after.qs = queues

\* the ledger holds an active alert created exactly five minutes ago and an
\* active alert of another type created 299 seconds ago: a candidate of the
\* first type is appended, one of the second dropped
C18_Witness ==
    /\ alert_state.last_kp /= 0
    /\ \E a, b \in SeqToSet(LedgerNow) :
          /\ is_active(a, now) /\ now - a.created_at = DedupWindowSeconds
          /\ is_active(b, now) /\ now - b.created_at = DedupWindowSeconds - 1
          /\ add_alert(LedgerNow, Candidate(a.alert_type), now)
                = Append(LedgerNow, Candidate(a.alert_type))
          /\ add_alert(LedgerNow, Candidate(b.alert_type), now) = LedgerNow
          /\ \A x \in SeqToSet(LedgerNow) :
                x.alert_type = a.alert_type => x = a

(* C19: the History Store persists every alert it receives: each alert   *)
(* the sink takes from its queue and handles leaves one more row in the   *)
(* store, the row of that alert under its id.                             *)
C19_PersistsEveryAlert ==
    [][handled'["history"] /= handled["history"] =>
          LET alert == handled'["history"][Len(handled'["history"])]
          IN  /\ RowOf(alert) \in store'
              /\ Cardinality(store') = Cardinality(store) + 1]_vars

\* the rows a pass removes for their age, and the limits of the store
TooOld(cfg, rows, t) ==
    {r \in rows : t - r.created_at > cfg.history_retention_days * SecondsPerDay}

WithinLimits(cfg, rows, t) ==
    /\ TooOld(cfg, rows, t) = {}
    /\ Cardinality(rows) <= cfg.history_max_entries

AtOrAbove(alerts, minimum) ==
    LET passes(a) == a.severity >= minimum
    IN  SelectSeq(alerts, passes)

(* C21: the Notification Sink emits exactly one notification for each     *)
(* alert it received whose severity is at or above the configured minimum *)
(* and none for an alert below it, in the order received; a notification  *)
(* that fails is logged, its alert is not taken up again, and no second   *)
(* notification is made for it.                                           *)
C21_OneNotificationPerAlert ==
    LET due == AtOrAbove(handled["notification"], config.notification_min_severity)
        lost == {i \in 1..Len(notified) : ~notified[i].shown}
    IN  /\ Len(notified) = Len(due)
        /\ \A i \in 1..Len(due) :
              /\ notified[i].alert = due[i].seq
              /\ notified[i].body = due[i].message
        /\ Len(errors) = Cardinality(lost)
        /\ \A i \in lost :
              \E k \in 1..Len(errors) :
                  errors[k] = [sink |-> "notification", alert |-> notified[i].alert]
        /\ \A a \in SeqToSet(handled["notification"]) :
              a \notin SeqToSet(queues["notification"])

\* the sink has handled an alert below the minimum, one exactly at it whose
\* notification failed, and then one above it whose notification was shown
C21_Witness ==
    \E i, j, k \in 1..Len(handled["notification"]) :
        /\ handled["notification"][i].severity < config.notification_min_severity
        /\ handled["notification"][j].severity = config.notification_min_severity
        /\ handled["notification"][k].severity > config.notification_min_severity
        /\ j < k
        /\ \E m, n \in 1..Len(notified) :
              /\ m < n
              /\ notified[m].alert = handled["notification"][j].seq /\ ~notified[m].shown
              /\ notified[n].alert = handled["notification"][k].seq /\ notified[n].shown

(* C22: when the Broker Publisher's intake queue is full and a detection  *)
(* cycle distributes an alert, the queue afterwards contains the newly    *)
(* distributed alert and no longer the alert that was at its head.        *)
C22_DropOldestOnOverflow ==
    [][(/\ cycles' = cycles + 1
        /\ sink_pc["mqtt"] /= "exited"
        /\ Len(queues["mqtt"]) = MqttCap
        /\ hist'[Len(hist')].distributed /= <<>>)
       => LET sent == hist'[Len(hist')].distributed
          IN  /\ sent[Len(sent)] \in SeqToSet(queues'["mqtt"])
              /\ Head(queues["mqtt"]) \notin SeqToSet(queues'["mqtt"])]_vars

\* what try_send leaves in a queue of the capacity after the alerts were
\* offered to it one by one
Absorbed(q, alerts, cap) ==
    LET all == q \o alerts
    IN  IF Len(all) <= cap THEN all ELSE SubSeq(all, 1, Max2(cap, Len(q)))

(* C23: while the broker is out of reach the eventloop task, after each   *)
(* connection error, sleeps for the fixed backoff and then tries again,   *)
(* for as long as the outage lasts; meanwhile a detection cycle runs to   *)
(* its end whatever the state of the connection and of the publish loop,  *)
(* and what it distributes enters the broker queue up to the queue's      *)
(* capacity, and the other sinks' queues all the same.                    *)
C23_OutageDoesNotStallIntake ==
    /\ \A n \in 0..(MaxTicks + 1) :
          (/\ ~broker.net /\ broker.attempts = n
           /\ \/ broker.loop_pc = "poll"
              \/ now >= broker.wake_at
              \/ ticks < MaxTicks)
            ~> (broker.net \/ broker.attempts > n)
    /\ [][(broker'.attempts > broker.attempts) =>
                (/\ broker'.loop_pc = "sleep"
                 /\ broker'.wake_at = now + BackoffSeconds)]_vars
    /\ [][(broker.loop_pc = "sleep" /\ broker'.loop_pc /= "sleep") =>
                (/\ broker'.loop_pc = "poll"
                 /\ now >= broker.wake_at)]_vars
    /\ [][cycles' = cycles + 1 =>
            /\ broker' = broker
            /\ alert_state'.last_kp = 65
            /\ hist'[1].produced /= <<>>
            /\ hist'[1].distributed = hist'[1].produced
            /\ \A s \in {"history", "mqtt"} :
                  queues'[s] = Absorbed(queues[s], hist'[1].distributed, Capacity(s))]_vars

\* the broker is out of reach and the eventloop task has tried at least
\* twice; the request channel is full, a publish waits for room in it, and
\* the last detection cycle, run during the outage, left its alert in the
\* broker queue
C23_Witness ==
    /\ ~broker.net
    /\ broker.attempts >= 2
    /\ broker.loop_pc = "sleep"
    /\ Len(broker.requests) = RequestCap
    /\ broker.pending /= {}
    /\ cycles >= 1
    /\ hist[1].distributed /= <<>>
    /\ hist[1].at >= broker.wake_at - BackoffSeconds
    /\ \A a \in SeqToSet(hist[1].distributed) : a \in SeqToSet(queues["mqtt"])

\* the alerts broadcast since the viewer subscribed
SentSince(v) ==
    SubSeq(web.sent, web.viewers[v].joined + 1, Len(web.sent))

(* C24: every viewer receives, in order and without a gap, the alerts the *)
(* Live Broadcaster has republished since the viewer connected and none   *)
(* broadcast before, and its pushes end only when the viewer itself has   *)
(* disconnected.                                                          *)
C24_EveryConnectedViewerReceives ==
    \A v \in Viewers :
        LET viewer == web.viewers[v]
        IN  /\ Len(viewer.pushed) <= Len(SentSince(v))
            /\ \A i \in 1..Len(viewer.pushed) :
                  viewer.pushed[i] = PushMessage(SentSince(v)[i])
            /\ viewer.st = "closed" => viewer.why = "disconnected"

\* the sink whose receive loop has just handled an alert
Handler(s) == handled'[s] /= handled[s]

(* C25: when storing, notifying or publishing an alert fails, the sink    *)
(* writes one error line and goes on: the alert has left its queue for    *)
(* good, the task is still in its receive loop, and the ledger, the       *)
(* detector's baselines, the cycle count and every other sink's queue and *)
(* handled alerts are as before; a detection cycle never sees a sink      *)
(* error.                                                                 *)
C25_SinkFailureStaysLocal ==
    /\ [][errors' /= errors =>
            \E s \in FaultySinks :
                /\ Handler(s)
                /\ errors' = Append(errors, LogLine(s, Head(queues[s])))
                /\ handled'[s] = Append(handled[s], Head(queues[s]))
                /\ queues'[s] = Tail(queues[s])
                /\ sink_pc' = sink_pc /\ sink_pc[s] = "running"
                /\ s = "mqtt" => broker' = broker
                /\ alert_state' = alert_state
                /\ cycles' = cycles /\ next_seq' = next_seq /\ hist' = hist
                /\ \A o \in Sinks \ {s} :
                      queues'[o] = queues[o] /\ handled'[o] = handled[o]]_vars
    /\ [][cycles' = cycles + 1 =>
            /\ errors' = errors
            /\ handled' = handled
            /\ sink_pc' = sink_pc]_vars

\* each of the three sinks has failed on an alert and has handled the next
\* one without error, and a detection cycle has run after the first failure
C25_Witness ==
    /\ cycles = MaxCyclesSinks
    /\ \A s \in FaultySinks :
          /\ Len(handled[s]) >= 2
          /\ \E k \in 1..Len(errors) : errors[k] = LogLine(s, handled[s][1])
          /\ \A k \in 1..Len(errors) : errors[k] /= LogLine(s, handled[s][2])
    /\ \E k \in 1..Len(errors) : errors[k].alert < hist[1].produced[1].seq

(***************************************************************************)
(* Sink startup: every sink enabled, with broker URLs that parse and ones  *)
(* that do not, and one configuration with every sink disabled.            *)
(***************************************************************************)
GoodUrls == {S_default_url, S_no_port_url, S_tls_url}
BadUrls == {S_http_url, S_big_port_url, S_word_port_url}

NoSinkConfig == [DefaultConfig EXCEPT !.history_enabled = FALSE]

StartupConfigs ==
    {[AllSinksConfig EXCEPT !.mqtt_broker_url = url] : url \in GoodUrls \cup BadUrls}
        \cup {NoSinkConfig}

InitStartup == InitWith(StartupConfigs)

NextStartup ==
    \/ DetectCycle(KpSnap(65), FALSE, MaxCyclesSinks)
    \/ \E s \in Sinks : SinkStart(s)
    \/ \E s \in Sinks : SinkRecv(s)

SpecStartup == InitStartup /\ [][NextStartup]_vars

Durations == {0, 1, 30}

DurationConfigs == {[DefaultConfig EXCEPT !.alert_duration_seconds = d] : d \in Durations}

DurationSnapshots ==
    { Snapshot(QuietWeather, <<>>, <<>>),
      Snapshot([kp |-> 65, flux |-> 2000, ap |-> 150],
               <<Spot(14074, <<"K", "1">>, S_FT8)>>, <<Sat(S_ISS, 40)>>),
      Snapshot([kp |-> 90, flux |-> 150, ap |-> 0],
               <<Spot(7074, <<"K", "2">>, S_CW)>>, <<>>) }

InitDuration == InitStartedWith(DurationConfigs)

NextDuration ==
    \/ \E snap \in DurationSnapshots : DetectCycle(snap, FALSE, MaxCycles)
    \/ Tick(UpdateInterval)

SpecDuration == InitDuration /\ [][NextDuration]_vars

\* C27: every alert created, of every type and under every configured
\* duration, expires strictly after it was created
C27_ExpiresAfterCreated ==
    /\ \A i \in 1..Len(alert_state.active_alerts) :
          alert_state.active_alerts[i].expires_at > alert_state.active_alerts[i].created_at
    /\ \A h \in 1..Len(hist) : \A i \in 1..Len(hist[h].produced) :
          hist[h].produced[i].expires_at > hist[h].produced[i].created_at

(***************************************************************************)
(* The Mutex<AppData> of main.rs, step by step: the data task locks, runs  *)
(* detect_alerts (cleanup, then the rules) and unlocks at the end of its   *)
(* block; each Space or Escape key press spawns a task that locks,         *)
(* acknowledges and unlocks; the forecast task locks to store its result.  *)
(***************************************************************************)
AckTasks == {"space", "escape"}

CanLock_always(m) == TRUE

\* Mutex::lock().await returns once no task holds the guard
CanLock(m) == m.holders = {}

otherVars == <<config, now, sink_pc, handled, ticks, store, cacheVars, notified, errors, broker, web>>

CycleLock ==
    /\ cycles < MaxCyclesSinks
    /\ mutex.pc = "idle"
    /\ CanLock(mutex)
    /\ mutex' = [mutex EXCEPT !.holders = @ \cup {"data"}, !.pc = "locked", !.seen = alert_state]
    /\ UNCHANGED <<alert_state, queues, next_seq, cycles, hist, otherVars>>

CycleCleanup ==
    /\ mutex.pc = "locked"
    /\ alert_state' = [alert_state EXCEPT !.active_alerts = cleanup_expired(@, now)]
    /\ mutex' = [mutex EXCEPT !.pc = "cleaned"]
    /\ UNCHANGED <<queues, next_seq, cycles, hist, otherVars>>

\* the rules, and the end of the block, where the guard is dropped
CycleRules(snap) ==
    /\ mutex.pc = "cleaned"
    /\ LET st == detect_rules(config, alert_state, queues, sink_pc, next_seq, snap, now)
       IN  /\ alert_state' = st.as
           /\ queues' = st.qs
           /\ next_seq' = st.seq
           /\ hist' = << [ snap        |-> snap,
                           pre         |-> Baselines(alert_state),
                           at          |-> now,
                           produced    |-> st.produced,
                           distributed |-> st.distributed,
                           accepted    |-> st.accepted ] >>
    /\ cycles' = cycles + 1
    /\ mutex' = [mutex EXCEPT !.holders = @ \ {"data"}, !.pc = "idle"]
    /\ UNCHANGED otherVars

\* the keyboard handler spawns the task and returns
KeyPress(k) ==
    /\ k \notin mutex.waiting \cup mutex.holders
    /\ mutex' = [mutex EXCEPT !.waiting = @ \cup {k}]
    /\ UNCHANGED <<alert_state, queues, next_seq, cycles, hist, otherVars>>

AckLock(k) ==
    /\ k \in mutex.waiting
    /\ CanLock(mutex)
    /\ mutex' = [mutex EXCEPT !.waiting = @ \ {k}, !.holders = @ \cup {k}]
    /\ UNCHANGED <<alert_state, queues, next_seq, cycles, hist, otherVars>>

AckApply(k) ==
    /\ k \in mutex.holders
    /\ alert_state' = [alert_state EXCEPT !.active_alerts =
                          IF k = "space" THEN acknowledge_latest(@, now)
                          ELSE acknowledge_all(@, now)]
    /\ mutex' = [mutex EXCEPT !.holders = @ \ {k}]
    /\ UNCHANGED <<queues, next_seq, cycles, hist, otherVars>>

ForecastLock ==
    /\ "forecast" \notin mutex.holders
    /\ CanLock(mutex)
    /\ mutex' = [mutex EXCEPT !.holders = @ \cup {"forecast"}]
    /\ UNCHANGED <<alert_state, queues, next_seq, cycles, hist, otherVars>>

\* data.hf_forecast = Some(forecast): no part of the ledger
ForecastStore ==
    /\ "forecast" \in mutex.holders
    /\ mutex' = [mutex EXCEPT !.holders = @ \ {"forecast"}]
    /\ UNCHANGED <<alert_state, queues, next_seq, cycles, hist, otherVars>>

MutexSnapshots == {KpSnap(65), XraySnap(150)}

InitMutex == InitStartedWith({NotifyConfig})

NextMutex ==
    \/ CycleLock
    \/ CycleCleanup
    \/ \E snap \in MutexSnapshots : CycleRules(snap)
    \/ \E k \in AckTasks : KeyPress(k)
    \/ \E k \in AckTasks : AckLock(k)
    \/ \E k \in AckTasks : AckApply(k)
    \/ ForecastLock
    \/ ForecastStore
    \/ \E s \in {"history", "notification"} : SinkRecv(s)

SpecMutex == InitMutex /\ [][NextMutex]_vars

\* C28: at most one task is inside the lock; the ledger changes only in a
\* step of the data task's cycle or of an acknowledge task, made while that
\* task holds the lock; a cycle ends with the ledger that an uninterrupted
\* detect_alerts gives from the ledger found when the lock was taken; and a
\* step of a sink task changes neither the ledger nor the cache
C28_ExclusiveLedgerAccess ==
    /\ [](Cardinality(mutex.holders) <= 1)
    /\ [](mutex.pc /= "idle" => "data" \in mutex.holders)
    /\ [][(alert_state' /= alert_state) =>
            (\/ mutex.holders = {"data"} /\ mutex'.pc /= mutex.pc
             \/ \E k \in AckTasks : mutex.holders = {k} /\ mutex'.holders = {})]_vars
    /\ [][(mutex.pc = "cleaned" /\ mutex'.pc = "idle") =>
            (alert_state' = detect_alerts(config, mutex.seen, queues, sink_pc, next_seq,
                                          hist'[1].snap, now).as)]_vars
    /\ [][(handled' /= handled) =>
            (alert_state' = alert_state /\ cache' = cache /\ mutex' = mutex)]_vars

\* an acknowledge task waits for the lock while the data task is between its
\* cleanup and its rules, and the ledger holds an acknowledged alert of an
\* earlier cycle
C28_Witness ==
    /\ mutex.pc = "cleaned"
    /\ mutex.holders = {"data"}
    /\ mutex.waiting /= {}
    /\ cycles = 1
    /\ \E i \in 1..Len(mutex.seen.active_alerts) : mutex.seen.active_alerts[i].acknowledged

(***************************************************************************)
(* clear_all against puts and gets of all four kinds.                      *)
(***************************************************************************)
ClearData(kind) ==
    CASE kind = "space_weather" -> StormWeather
      [] kind = "forecast" -> <<"f">>
      [] kind = "dx_spots" -> <<Spot(14074, <<"K", "1">>, S_FT8)>>
      [] kind = "satellites" -> <<Sat(S_ISS, 40)>>

NextClear ==
    \/ \E kind \in CacheKinds : CachePutCreate(kind, ClearData(kind))
    \/ \E kind \in CacheKinds : CachePutStore(kind)
    \/ \E kind \in CacheKinds : CacheGet(kind)
    \/ ClearAllStep

SpecClear == InitCache /\ [][NextClear]_vars

DxWindows ==
    {<<None, None>>, <<Some(14000), None>>, <<None, Some(14080)>>, <<Some(7074), Some(14074)>>}

DxConfigs ==
    {[NoSinksConfig EXCEPT !.dx_min_frequency = w[1], !.dx_max_frequency = w[2]] : w \in DxWindows}

\* on a watched band and in a watched mode; 9 kHz off a watched band in an
\* unwatched mode; off every band in a watched mode, in lower case; 10 kHz
\* off in an unwatched mode; on the lowest frequency of the last window
DxSpots ==
    { Spot(14074, <<"K", "1">>, S_FT8),
      Spot(14083, <<"K", "1">>, S_SSB),
      Spot(21000, <<"K", "2">>, S_ft8),
      Spot(14084, <<"K", "2">>, S_SSB),
      Spot(7074, <<"K", "3">>, S_CW) }

DxSnapshots ==
    {Snapshot(QuietWeather, <<a>>, <<>>) : a \in DxSpots}
        \cup {Snapshot(QuietWeather, <<a, b>>, <<>>) : a \in DxSpots, b \in DxSpots}

InitDx == InitStartedWith(DxConfigs)

NextDx == \E snap \in DxSnapshots : DetectCycle(snap, FALSE, MaxCyclesSinks)

SpecDx == InitDx /\ [][NextDx]_vars

\* the match of the rule: a watched band or a watched mode, inside the window
SpotMatches(cfg, spot) ==
    /\ is_watched_band(cfg, spot) \/ is_watched_mode(cfg, spot)
    /\ \A min \in cfg.dx_min_frequency : spot.frequency >= min
    /\ \A max \in cfg.dx_max_frequency : spot.frequency <= max

\* the spots of a snapshot that alert, given the history before the cycle:
\* those that match, whose callsign is not in the history and is not that of
\* an earlier matching spot of the snapshot
Alerting(cfg, seen, spots) ==
    {i \in 1..Len(spots) :
        /\ SpotMatches(cfg, spots[i])
        /\ ~SeqContains(seen, spots[i].callsign)
        /\ \A j \in 1..(i - 1) :
              ~(spots[j].callsign = spots[i].callsign /\ SpotMatches(cfg, spots[j]))}

Nth(S, k) == CHOOSE i \in S : Cardinality({j \in S : j < i}) = k - 1

\* C30: a cycle produces one spot alert for each spot that matches and whose
\* callsign is not in the rolling history, in the order of the snapshot, and
\* appends the callsigns of those spots to the history; a callsign in the
\* history, from an earlier cycle or from an earlier spot of the snapshot,
\* produces none
C30_SpotMatch ==
    [][(cycles' = cycles + 1) =>
        (LET spots == hist'[1].snap.dx_spots
             seen == alert_state.last_dx_spots
             hits == Alerting(config, seen, spots)
             produced == hist'[1].produced
         IN  /\ Len(produced) = Cardinality(hits)
             /\ \A k \in 1..Len(produced) :
                   /\ produced[k].alert_type = "DxSpot"
                   /\ produced[k].message[2] = spots[Nth(hits, k)].frequency
                   /\ produced[k].message[4] = spots[Nth(hits, k)].callsign
             /\ alert_state'.last_dx_spots =
                   seen \o [k \in 1..Cardinality(hits) |-> spots[Nth(hits, k)].callsign]
             /\ \A i \in 1..Len(spots) :
                   SeqContains(seen, spots[i].callsign) => i \notin hits)]_vars

\* the second cycle has seen the same callsign twice: the first spot was on
\* a watched band and outside the window, the second matched and gave the one
\* alert; the first cycle had recorded another callsign
C30_Witness ==
    /\ cycles = 2
    /\ config.dx_min_frequency /= None /\ config.dx_max_frequency /= None
    /\ Len(hist[1].snap.dx_spots) = 2
    /\ hist[1].snap.dx_spots[1].callsign = hist[1].snap.dx_spots[2].callsign
    /\ is_watched_band(config, hist[1].snap.dx_spots[1])
    /\ ~SpotMatches(config, hist[1].snap.dx_spots[1])
    /\ Len(hist[1].produced) = 1
    /\ Len(alert_state.last_dx_spots) = 2
    /\ alert_state.last_dx_spots[2] = hist[1].snap.dx_spots[2].callsign

(***************************************************************************)
(* The rolling callsign history near its limit: the detector has recorded  *)
(* 49, 99 or 100 callsigns, and snapshots bring old and new ones, up to 51 *)
(* new ones at once.                                                       *)
(***************************************************************************)
Call(k) == <<"N", k>>

Calls(from, to) == [i \in 1..(to - from + 1) |-> Call(from + i - 1)]

TrimStarts == {49, 99, 100}

TrimSnap(calls) ==
    Snapshot(QuietWeather, [i \in 1..Len(calls) |-> Spot(14074, calls[i], S_FT8)], <<>>)

TrimBatches ==
    { <<Call(1)>>, <<Call(50)>>, <<Call(51)>>, <<Call(101)>>,
      <<Call(101), Call(1)>>, <<Call(101), Call(102)>>,
      Calls(101, 103), Calls(101, 150), Calls(101, 151) }

InitTrim ==
    /\ config = NoSinksConfig
    /\ now = 0
    /\ \E n \in TrimStarts :
          alert_state = [AlertStateNew EXCEPT !.last_dx_spots = Calls(1, n)]
    /\ queues = [s \in Sinks |-> <<>>]
    /\ sink_pc = [s \in Sinks |-> "exited"]
    /\ handled = [s \in Sinks |-> <<>>]
    /\ next_seq = 0
    /\ cycles = 0
    /\ ticks = 0
    /\ hist = <<>>
    /\ store = {}
    /\ cache = [k \in CacheKinds |-> {}]
    /\ cache_ops = CacheOpsNew
    /\ got = GotNothing
    /\ fetches = [k \in CacheKinds |-> 0]
    /\ notified = <<>>
    /\ errors = <<>>
    /\ broker = BrokerNew
    /\ web = WebNew
    /\ mutex = MutexNew

NextTrim == \E calls \in TrimBatches : DetectCycle(TrimSnap(calls), FALSE, MaxCyclesSinks)

SpecTrim == InitTrim /\ [][NextTrim]_vars

\* the history as the loop over the spots of the last cycle left it, before
\* the trim: the history before the cycle and the callsigns of the alerts
Untrimmed(before, produced) ==
    before \o [k \in 1..Len(produced) |-> produced[k].message[4]]

\* C31 as stated: a history that exceeds 100 entries loses its oldest half
\* (half of its entries), one of 100 or fewer is left alone
C31_OldestHalfDropped ==
    [][(cycles' = cycles + 1) =>
        (LET h == Untrimmed(alert_state.last_dx_spots, hist'[1].produced)
         IN  alert_state'.last_dx_spots =
                 IF Len(h) > DxHistoryLimit THEN SubSeq(h, (Len(h) \div 2) + 1, Len(h)) ELSE h)]_vars

\* C31, amended: a history that exceeds 100 entries loses its 50 oldest
\* entries, whatever its length, and keeps the newer ones in their order; one
\* of 100 or fewer is left alone; a callsign that a trim dropped alerts again
\* when it is spotted again
C31_OldestFiftyDropped ==
    [][(cycles' = cycles + 1) =>
        (LET h == Untrimmed(alert_state.last_dx_spots, hist'[1].produced)
             spots == hist'[1].snap.dx_spots
         IN  /\ alert_state'.last_dx_spots =
                    IF Len(h) > DxHistoryLimit THEN SubSeq(h, DxHistoryDrain + 1, Len(h)) ELSE h
             /\ (~SeqContains(alert_state.last_dx_spots, spots[1].callsign)) =>
                    (/\ hist'[1].produced /= <<>>
                     /\ hist'[1].produced[1].message[4] = spots[1].callsign))]_vars

\* the first cycle took the history from 100 to 102 entries and the trim left
\* 52; the second cycle has alerted on the oldest callsign of the start, which
\* the trim had dropped
C31_Witness ==
    /\ cycles = 2
    /\ hist[1].snap.dx_spots = <<Spot(14074, Call(1), S_FT8)>>
    /\ Len(hist[1].produced) = 1
    /\ alert_state.last_dx_spots = Calls(51, 102) \o <<Call(1)>>

\* C37: the trim runs once per cycle, after the loop over the spots: every
\* spot of the snapshot is tested against the untrimmed history, so that a
\* callsign about to be dropped still alerts no more; the trim then removes
\* exactly the 50 oldest entries of a history of more than 100; a cycle that
\* starts with at most 100 entries and adds at most 50 ends with at most 100
C37_TrimOncePerCycle ==
    [][(cycles' = cycles + 1) =>
        (LET before == alert_state.last_dx_spots
             after == alert_state'.last_dx_spots
             spots == hist'[1].snap.dx_spots
             hits == Alerting(config, before, spots)
             long == Untrimmed(before, hist'[1].produced)
         IN  /\ Len(hist'[1].produced) = Cardinality(hits)
             /\ Len(long) = Len(before) + Cardinality(hits)
             /\ Len(after) = IF Len(long) > DxHistoryLimit THEN Len(long) - DxHistoryDrain
                             ELSE Len(long)
             /\ after = SubSeq(long, Len(long) - Len(after) + 1, Len(long))
             /\ (Len(before) <= DxHistoryLimit /\ Cardinality(hits) <= DxHistoryDrain)
                    => Len(after) <= DxHistoryLimit)]_vars

\* a cycle that found 100 callsigns and alerted on 51 new ones: the history
\* held 151 entries before the trim and holds 101 after it
C37_Witness ==
    /\ cycles = 1
    /\ Len(hist[1].produced) = DxHistoryDrain + 1
    /\ Len(alert_state.last_dx_spots) = DxHistoryLimit + 1
    /\ alert_state.last_dx_spots = Calls(51, 151)

(***************************************************************************)
(* The enable flags of AlertConfig: all rules on, and each flag off alone. *)
(***************************************************************************)
AllRulesConfig == NoSinksConfig

ToggleConfigs ==
    { AllRulesConfig,
      [AllRulesConfig EXCEPT !.dx_alerts_enabled = FALSE],
      [AllRulesConfig EXCEPT !.satellite_alerts_enabled = FALSE],
      [AllRulesConfig EXCEPT !.space_weather_alerts_enabled = FALSE],
      [AllRulesConfig EXCEPT !.cme_alerts_enabled = FALSE] }

\* the alert types of the rules that the flags of a configuration switch
\* off; the Kp-spike, X-ray and aurora rules have no flag of their own and go
\* with space_weather_alerts_enabled
SwitchedOff(cfg) ==
    (IF cfg.dx_alerts_enabled THEN {} ELSE {"DxSpot"})
        \cup (IF cfg.satellite_alerts_enabled THEN {} ELSE {"SatellitePass"})
        \cup (IF cfg.space_weather_alerts_enabled THEN {} ELSE {"KpSpike", "XrayFlare", "Aurora"})
        \cup (IF cfg.cme_alerts_enabled THEN {} ELSE {"Cme"})

\* what a reader sees of an alert
Shown(alerts) ==
    [k \in 1..Len(alerts) |->
        [ alert_type |-> alerts[k].alert_type,
          severity   |-> alerts[k].severity,
          message    |-> alerts[k].message ]]

\* the alerts of a sequence whose type is not among the given ones
Without(alerts, types) ==
    SelectSeq(alerts, LAMBDA a : a.alert_type \notin types)

InitToggle == InitStartedWith(ToggleConfigs)

NextToggle == \E snap \in DurationSnapshots : DetectCycle(snap, FALSE, MaxCycles)

SpecToggle == InitToggle /\ [][NextToggle]_vars

\* C32: with the flag of one rule off and the others on, a cycle produces no
\* alert of the types switched off, and of the other types exactly the alerts
\* that the same cycle produces with every rule on
C32_RulesIndependent ==
    [][(cycles' = cycles + 1) =>
        (LET all_on == detect_alerts(AllRulesConfig, alert_state, queues, sink_pc, next_seq,
                                     hist'[1].snap, now).produced
         IN  Shown(hist'[1].produced) = Shown(Without(all_on, SwitchedOff(config))))]_vars

\* C33: every alert produced, of every type, expires at its creation time
\* plus the configured alert duration
C33_ExpiresAtConfiguredDuration ==
    \A h \in 1..Len(hist) : \A i \in 1..Len(hist[h].produced) :
        hist[h].produced[i].expires_at =
            hist[h].produced[i].created_at + config.alert_duration_seconds

\* the positions of the active alerts of a ledger
ActiveAt(alerts, t) == {i \in 1..Len(alerts) : is_active(alerts[i], t)}

\* C34: on every ledger the program reaches, acknowledge_latest marks the
\* last active alert and nothing else, acknowledge_all marks every active
\* alert and nothing else, neither changes the length of the ledger, the
\* active count drops by one and to zero, and both leave a ledger with no
\* active alert as it is; the step of either changes the ledger into one of
\* these two results and leaves the detector baselines alone
C34_AcknowledgeFrame ==
    /\ [](LET L == alert_state.active_alerts
              A == ActiveAt(L, now)
              one == acknowledge_latest(L, now)
              all == acknowledge_all(L, now)
          IN  /\ Len(one) = Len(L) /\ Len(all) = Len(L)
              /\ A = {} => (one = L /\ all = L)
              /\ \A i \in 1..Len(L) :
                    /\ one[i] = IF i \in A /\ \A j \in A : j <= i
                                THEN [L[i] EXCEPT !.acknowledged = TRUE] ELSE L[i]
                    /\ all[i] = IF i \in A THEN [L[i] EXCEPT !.acknowledged = TRUE] ELSE L[i]
              /\ Cardinality(ActiveAt(one, now)) = Cardinality(A) - (IF A = {} THEN 0 ELSE 1)
              /\ ActiveAt(all, now) = {})
    /\ [][(alert_state' /= alert_state /\ cycles' = cycles) =>
            (/\ Baselines(alert_state') = Baselines(alert_state)
             /\ alert_state'.active_alerts \in
                    { acknowledge_latest(alert_state.active_alerts, now),
                      acknowledge_all(alert_state.active_alerts, now) })]_vars

\* the latest alert of the ledger has been acknowledged while an earlier one
\* is still active and a third has expired
C34_Witness ==
    \E i, j, k \in 1..Len(alert_state.active_alerts) :
        /\ i < j
        /\ is_active(alert_state.active_alerts[i], now)
        /\ alert_state.active_alerts[j].acknowledged
        /\ ~is_expired(alert_state.active_alerts[j], now)
        /\ \A m \in (j + 1)..Len(alert_state.active_alerts) :
              ~is_active(alert_state.active_alerts[m], now)
        /\ is_expired(alert_state.active_alerts[k], now)

(***************************************************************************)
(* SpecDedup: a geomagnetic storm that persists over the cycles, with the  *)
(* default alert duration of 30 seconds and with one of 10 minutes, the    *)
(* clock advancing by the update interval or past the default duration,    *)
(* and the operator acknowledging.                                         *)
(***************************************************************************)
SlowExpiryConfig == [NoSinksConfig EXCEPT !.alert_duration_seconds = 600]

DedupConfigs == {NoSinksConfig, SlowExpiryConfig}

DedupSnapshots == {KpSnap(60), KpSnap(30)}

DedupTicks == {UpdateInterval, NoSinksConfig.alert_duration_seconds + 1}

InitDedup == InitStartedWith(DedupConfigs)

NextDedup ==
    \/ \E snap \in DedupSnapshots : DetectCycle(snap, TRUE, MaxCycles)
    \/ \E d \in DedupTicks : Tick(d)
    \/ AcknowledgeLatest
    \/ AcknowledgeAll

SpecDedup == InitDedup /\ [][NextDedup]_vars

\* an alert of the ledger that stands in the way of a candidate created at t:
\* same type, neither expired nor acknowledged, created less than 5 minutes
\* before
Blocks(a, alert_type, t) ==
    /\ a.alert_type = alert_type
    /\ t <= a.expires_at
    /\ ~a.acknowledged
    /\ t - a.created_at < DedupMinutes * SecondsPerMinute

AcceptedTypes(entry) == {entry.accepted[i].alert_type : i \in 1..Len(entry.accepted)}

\* C35: a candidate of a detection cycle is rejected exactly when the ledger
\* holds an alert of its type that is neither expired nor acknowledged and was
\* created less than 5 minutes earlier; with every earlier alert of the type
\* expired or acknowledged it is accepted, however recent they are
C35_DedupOnlyActive ==
    [][(cycles' = cycles + 1) =>
        (LET entry == hist'[Len(hist')]
         IN  \A i \in 1..Len(entry.produced) :
                (entry.produced[i] \in SeqToSet(entry.accepted))
                    <=> ~\E k \in 1..Len(alert_state.active_alerts) :
                            Blocks(alert_state.active_alerts[k],
                                   entry.produced[i].alert_type, now))]_vars

\* with the 30-second duration an aurora alert was accepted in each of three
\* cycles less than 5 minutes apart: in the second before the first one could
\* have expired (it had been acknowledged), in the third after the second one
\* had expired
C35_Witness ==
    /\ config.alert_duration_seconds < DedupMinutes * SecondsPerMinute
    /\ Len(hist) = 3
    /\ \A k \in 1..3 : "Aurora" \in AcceptedTypes(hist[k])
    /\ hist[2].at <= hist[1].at + config.alert_duration_seconds
    /\ hist[3].at > hist[2].at + config.alert_duration_seconds
    /\ hist[3].at - hist[1].at < DedupMinutes * SecondsPerMinute
    /\ \A k \in 1..Len(alert_state.active_alerts) :
          ~alert_state.active_alerts[k].acknowledged

(***************************************************************************)
(* SpecFirst: the first detection cycles after start, with the default     *)
(* thresholds, with lower ones, and with an elevation threshold of 0       *)
(* degrees (every pass above the horizon).                                 *)
(***************************************************************************)
HorizonConfig == [NoSinksConfig EXCEPT !.satellite_elevation_threshold = 0]

FirstConfigs == {NoSinksConfig, SensitiveConfig, HorizonConfig}

FirstWeather ==
    { [kp |-> 10, flux |-> 150, ap |-> 5],
      [kp |-> 15, flux |-> 200, ap |-> 100],
      [kp |-> 20, flux |-> 201, ap |-> 5],
      [kp |-> 60, flux |-> 150, ap |-> 101] }

FirstSats == { <<>>, <<Sat(S_ISS, 10)>>, <<Sat(S_ISS, 30)>>, <<Sat(S_NOAA, 40)>> }

FirstSnapshots == {Snapshot(sw, <<>>, sats) : sw \in FirstWeather, sats \in FirstSats}

InitFirst == InitStartedWith(FirstConfigs)

NextFirst == \E snap \in FirstSnapshots : DetectCycle(snap, TRUE, MaxCyclesSinks)

SpecFirst == InitFirst /\ [][NextFirst]_vars

ProducedOfType(entry, alert_type) ==
    {entry.produced[i] : i \in {k \in 1..Len(entry.produced) :
                                    entry.produced[k].alert_type = alert_type}}

\* the first cycle started from AlertState::new and its Kp is at least the
\* spike threshold: a Kp-spike alert is produced
FirstKpSpike(cfg, entry) ==
    entry.snap.space_weather.kp >= cfg.kp_spike_threshold
        => ProducedOfType(entry, "KpSpike") /= {}

\* flux above 200 or Ap above 100 in the first cycle: a CME alert is produced
FirstCme(cfg, entry) ==
    (entry.snap.space_weather.flux > 200 \/ entry.snap.space_weather.ap > 100)
        => ProducedOfType(entry, "Cme") /= {}

\* a watched satellite of the first snapshot at or above the threshold: a
\* pass alert for it is produced
FirstPass(cfg, entry) ==
    \A i \in 1..Len(entry.snap.satellites) :
        LET sat == entry.snap.satellites[i]
        IN  (is_watched_satellite(cfg, sat) /\ sat.elevation >= cfg.satellite_elevation_threshold)
                => \E a \in ProducedOfType(entry, "SatellitePass") : a.message[2] = sat.name

\* C36: in the first cycle after start the baselines are those of
\* AlertState::new, a Kp-spike alert fires whenever Kp is at least the spike
\* threshold, a CME alert whenever flux exceeds 200 or Ap exceeds 100, and a
\* pass alert for every watched satellite at or above the elevation threshold
C36_FirstCycleFires ==
    Len(hist) >= 1 =>
        /\ hist[1].pre = Baselines(AlertStateNew)
        /\ FirstKpSpike(config, hist[1])
        /\ FirstCme(config, hist[1])
        /\ FirstPass(config, hist[1])

\* the same with the pass alert left to positive elevation thresholds
FirstCycleFiresAboveHorizon ==
    Len(hist) >= 1 =>
        /\ hist[1].pre = Baselines(AlertStateNew)
        /\ FirstKpSpike(config, hist[1])
        /\ FirstCme(config, hist[1])
        /\ (config.satellite_elevation_threshold > 0 => FirstPass(config, hist[1]))

(***************************************************************************)
(* SpecSeen: satellites that come, stay away for a cycle and come back,    *)
(* with the default watch list and with an empty one (every satellite is   *)
(* watched).                                                               *)
(***************************************************************************)
SeenSnapshots ==
    { SatSnap(<<>>),
      SatSnap(<<Sat(S_ISS, 35)>>),
      SatSnap(<<Sat(S_ISS, 10)>>),
      SatSnap(<<Sat(S_NOAA, 40)>>),
      SatSnap(<<Sat(S_iss_zarya, 35), Sat(S_ISS, 30)>>) }

InitSeen == InitStartedWith(SatConfigs)

NextSeen == \E snap \in SeenSnapshots : DetectCycle(snap, TRUE, MaxCycles)

SpecSeen == InitSeen /\ [][NextSeen]_vars

\* the positions of the watched satellites of that name in a snapshot
WatchedAt(cfg, sats, name) ==
    {i \in 1..Len(sats) : sats[i].name = name /\ is_watched_satellite(cfg, sats[i])}

MapKeys(m) == {p[1] : p \in m}

PassAlertsFor(entry, name) ==
    {a \in ProducedOfType(entry, "SatellitePass") : a.message[2] = name}

\* C38: a detection cycle sets the last elevation of every watched satellite
\* of its snapshot to the elevation seen, leaves every other entry of the map
\* as it is and removes none; a watched satellite whose recorded elevation is
\* at or above the threshold and which is seen at or above it fires no pass
\* alert; and the map never holds an entry for an unwatched satellite
C38_LastElevationFrame ==
    /\ [](\A name \in MapKeys(alert_state.last_satellite_elevations) :
              is_watched_satellite(config, Sat(name, 0)))
    /\ [][(cycles' = cycles + 1) =>
            (LET entry == hist'[Len(hist')]
                 sats == entry.snap.satellites
                 old == alert_state.last_satellite_elevations
                 new == alert_state'.last_satellite_elevations
             IN  /\ MapKeys(old) \subseteq MapKeys(new)
                 /\ \A name \in MapKeys(old) \cup MapKeys(new) \cup {sats[i].name : i \in 1..Len(sats)} :
                       LET seen == WatchedAt(config, sats, name)
                       IN  IF seen = {}
                           THEN {p \in new : p[1] = name} = {p \in old : p[1] = name}
                           ELSE {p \in new : p[1] = name} =
                                    {<<name, sats[CHOOSE i \in seen : \A j \in seen : j <= i].elevation>>}
                 /\ \A i \in 1..Len(sats) :
                       (/\ WatchedAt(config, sats, sats[i].name) = {i}
                        /\ MapHas(old, sats[i].name)
                        /\ MapGetOr(old, sats[i].name, 0) >= config.satellite_elevation_threshold
                        /\ sats[i].elevation >= config.satellite_elevation_threshold)
                           => PassAlertsFor(entry, sats[i].name) = {})]_vars

\* ISS passed above the threshold, was missing from the next snapshot, which
\* held another watched satellite, and came back above the threshold without
\* a pass alert; both satellites are in the map
C38_Witness ==
    /\ Len(hist) = 3
    /\ hist[1].snap.satellites = <<Sat(S_ISS, 35)>>
    /\ PassAlertsFor(hist[1], S_ISS) /= {}
    /\ hist[2].snap.satellites = <<Sat(S_NOAA, 40)>>
    /\ hist[3].snap.satellites = <<Sat(S_ISS, 35)>>
    /\ hist[3].produced = <<>>
    /\ alert_state.last_satellite_elevations = {<<S_ISS, 35>>, <<S_NOAA, 40>>}

\* the viewer's receiver is more than the capacity of the broadcast channel
\* behind
Lagging(w, v) == Len(w.sent) - w.viewers[v].pos > BroadcastCap

(* C39: a connected viewer that is more than the broadcast capacity       *)
(* behind leaves its push loop at its next receive, with nothing pushed   *)
(* and whether or not its socket would have taken a message; that step    *)
(* changes nothing else: the other viewers, the broadcast alerts, the     *)
(* forwarder and its queue are as before. A closed viewer is pushed       *)
(* nothing further, and the forwarder keeps running and republishes the   *)
(* head of its queue whatever the viewers' states are.                    *)
C39_LaggedViewerEnds ==
    /\ [](/\ sink_pc["web"] = "running"
          /\ \A v \in Viewers : web.viewers[v].why = "lagged" => web.viewers[v].st = "closed")
    /\ [][/\ \A v \in Viewers :
                /\ web.viewers[v].st = "closed" => web'.viewers[v] = web.viewers[v]
                /\ (/\ web.viewers[v].st = "open"
                    /\ web'.viewers[v] /= web.viewers[v]
                    /\ Lagging(web, v))
                       => /\ web' = [web EXCEPT !.viewers[v].st = "closed",
                                                !.viewers[v].why = "lagged"]
                          /\ queues' = queues
                          /\ handled' = handled
                          /\ sink_pc' = sink_pc
          /\ web'.sent /= web.sent
                => /\ web'.sent = Append(web.sent, Head(queues["web"]))
                   /\ web'.viewers = web.viewers
                   /\ queues'["web"] = Tail(queues["web"])]_vars

\* one viewer's push loop has ended on a lag error; the other viewer is
\* connected and has been pushed every alert broadcast, the latest included,
\* and the forwarder has emptied its queue
C39_Witness ==
    \E v, u \in Viewers :
        /\ web.viewers[v].st = "closed"
        /\ web.viewers[v].why = "lagged"
        /\ Len(web.sent) - web.viewers[v].pos > BroadcastCap
        /\ web.viewers[u].st = "open"
        /\ web.viewers[u].pos = Len(web.sent)
        /\ Len(web.viewers[u].pushed) > Len(web.viewers[v].pushed)
        /\ queues["web"] = <<>>

(***************************************************************************)
(* SpecLive: the sink tasks, the History Store's maintenance pass and the  *)
(* eventloop task under fair scheduling, against detection cycles at       *)
(* Kp 6.5, with operations that can fail and a broker that can go out of   *)
(* reach; the History Store and the Broker Publisher are enabled.  Time    *)
(* passes only to end the eventloop's sleep.                               *)
(***************************************************************************)
LiveConfig == [DefaultConfig EXCEPT !.mqtt_enabled = TRUE, !.history_max_entries = 1]

InitLive == InitStartedWith({LiveConfig})

\* tokio::time::sleep(5 s) of the eventloop task runs out; during an outage
\* the number of attempts followed is capped
WaitOut ==
    /\ broker.loop_pc = "sleep"
    /\ now < broker.wake_at
    /\ broker.net \/ broker.attempts <= MaxAttempts
    /\ now' = broker.wake_at
    /\ UNCHANGED <<config, ticks, detectorVars, cacheVars, ioVars>>

\* one iteration of a sink's receive loop, whatever the outcome of its
\* external operation
SinkTurn(s) ==
    \E io_ok \in BOOLEAN : (io_ok \/ Len(errors) < MaxLogged) /\ SinkHandle(s, io_ok)

NextLive ==
    \/ DetectCycle(KpSnap(65), FALSE, MaxCyclesSinks)
    \/ \E s \in Sinks : SinkTurn(s)
    \/ HistoryCleanup
    \/ MqttPublishResume
    \/ EventLoopPoll
    \/ EventLoopWake
    \/ WaitOut
    \/ NetChange

\* every task is scheduled when it can run: tokio wakes a receive loop whose
\* channel holds a value, select! picks among its ready branches at random,
\* and timers fire
SpecLive ==
    /\ InitLive
    /\ [][NextLive]_vars
    /\ \A s \in Sinks : WF_vars(SinkTurn(s))
    /\ WF_vars(HistoryCleanup)
    /\ WF_vars(MqttPublishResume)
    /\ WF_vars(EventLoopPoll)
    /\ WF_vars(EventLoopWake)
    /\ WF_vars(WaitOut)

\* the sequence numbers of the alerts that MaxCyclesSinks cycles at Kp 6.5
\* build: Kp spike and aurora in the first, aurora in each later one
AlertSeqs == 0..MaxCyclesSinks

Queued(s, n) == \E i \in 1..Len(queues[s]) : queues[s][i].seq = n

Handled(s, n) == \E i \in 1..Len(handled[s]) : handled[s][i].seq = n

\* every alert in the queue of the sink is eventually taken and handled
EventuallyHandled(s) == \A n \in AlertSeqs : Queued(s, n) ~> Handled(s, n)

\* the maintenance pass gets its turn: the store is brought back to its
\* maximum number of rows again and again
MaintenanceRuns == []<>(Cardinality(store) <= config.history_max_entries)

\* C40: under fair scheduling every alert in the queue of a running sink is
\* eventually taken from the queue and handled by that sink, and the History
\* Store's maintenance pass and its alert intake both get their turn
C40_EnqueuedEventuallyHandled ==
    /\ \A s \in Sinks : EventuallyHandled(s)
    /\ MaintenanceRuns

\* the same without the Broker Publisher
OtherSinksLive ==
    /\ \A s \in Sinks \ {"mqtt"} : EventuallyHandled(s)
    /\ MaintenanceRuns

\* the Broker Publisher when the request channel of the MQTT client always
\* gets room again: the broker is in reach and a waiting publish has gone
\* through
BrokerLiveWhenReachable ==
    []<>(broker.net /\ broker.pending = {}) => EventuallyHandled("mqtt")

\* while the broker stays out of reach and the request channel is full, a
\* publish that waits for room keeps waiting, nothing leaves the request
\* channel, and the publish loop takes nothing from its queue: the attempts
\* of the eventloop task change nothing of this, however many follow
OutageKeepsPublishWaiting ==
    [][(/\ ~broker.net /\ ~broker'.net
        /\ broker.pending /= {}
        /\ Len(broker.requests) = RequestCap)
          => /\ broker'.pending = broker.pending
             /\ broker'.requests = broker.requests
             /\ handled'["mqtt"] = handled["mqtt"]
             /\ Len(queues'["mqtt"]) >= Len(queues["mqtt"])
             /\ SubSeq(queues'["mqtt"], 1, Len(queues["mqtt"])) = queues["mqtt"]]_vars


====
